---------------------------- MODULE Spec2Model ----------------------------
(***************************************************************************)
(* A model of mqttcommander: the Tasmota device record and its online      *)
(* test (models.py), command dispatch with response correlation, and       *)
(* discovery aggregation / online filtering (tasmotacommander.py).         *)
(*                                                                         *)
(* Python values are modelled as follows.  None is the string "None".  An  *)
(* Optional object is a sequence: << >> is None, <<x>> is the object x.    *)
(* A dict is a function whose DOMAIN is the set of its keys.  A list (and  *)
(* a str that is indexed like a list) is a sequence.  An MQTT topic is the *)
(* sequence of its "/"-separated segments.                                 *)
(***************************************************************************)
EXTENDS Integers, Sequences, FiniteSets, TLC

None == "None"

\* ---------------------------------------------------------------- bounds
MaxResponses == 2         \* responses the devices send during one dispatch
MaxPublishFailures == 1   \* publishes that fail during one dispatch
MaxBatch == 3             \* retained messages in one batch

\* ------------------------------------------------------- models.py: data
TzFields == {"latitude", "longitude", "timedst", "timestd", "timezone"}

\* TasmotaDeviceConfig(): every field defaults to None.
TasmotaDeviceConfig ==
    [topic |-> None, online_msg |-> None, timezoneconfig |-> << >>,
     teleperiod |-> None, powerdelta1 |-> None, setoption4 |-> None,
     timer1 |-> None, timer2 |-> None, timer3 |-> None, timer4 |-> None]

\* TasmotaDevice(): every field defaults to None.
TasmotaDevice ==
    [tasmota_config |-> << >>, tasmota_sensors |-> None,
     tasmota_rule1 |-> None, tasmota_rule2 |-> None, tasmota_rule3 |-> None,
     lwt_current_value |-> None]

\* Python truthiness of an Optional[str].
Truthy(s) == s # None /\ s # ""

\* A mutant of is_online: the per-device override is ignored.
is_online_default_only(td, lwt_online_default_value) ==
    td.lwt_current_value = lwt_online_default_value

\* TasmotaDevice.is_online
is_online(td, lwt_online_default_value) ==
    IF td.tasmota_config # << >> /\ Truthy(td.tasmota_config[1].online_msg)
    THEN td.lwt_current_value = td.tasmota_config[1].online_msg
    ELSE td.lwt_current_value = lwt_online_default_value

\* The wire key that AliasChoices lists first for a TasmotaTimezoneConfig field.
TzAlias(f) ==
    CASE f = "latitude" -> "Latitude"
      [] f = "longitude" -> "Longitude"
      [] f = "timedst" -> "TimeDst"
      [] f = "timestd" -> "TimeStd"
      [] f = "timezone" -> "Timezone"

\* TasmotaTimezoneConfig.model_dump(): a dict keyed by the field names.
TzModelDump(tz) == [f \in TzFields |-> tz[f]]

\* TasmotaTimezoneConfig(**d): each field takes the first alias choice that is
\* a key of d; other keys are ignored.
TasmotaTimezoneConfig(d) ==
    [f \in TzFields |->
        IF TzAlias(f) \in DOMAIN d THEN d[TzAlias(f)]
        ELSE IF f \in DOMAIN d THEN d[f]
        ELSE None]

\* {}
EmptyDict == [k \in {} |-> None]

\* dict.update(**u)
DictUpdate(d, u) ==
    [k \in (DOMAIN d) \cup (DOMAIN u) |-> IF k \in DOMAIN u THEN u[k] ELSE d[k]]


\* ------------------------------------- tasmotacommander.py: command dispatch
VARIABLES
    tasmotas,               \* the device list handed to the call (mutated in place)
    to_be_used_commands,    \* the command list handed to the call
    values_to_send,         \* the per-device value lists handed to the call
    pc,                     \* position of the dispatching thread
    tasmota_online,         \* indexes into tasmotas of the online devices
    values_to_send_online,  \* their value lists
    num,                    \* position in tasmota_online of the current device
    index,                  \* position in the command list of the current command
    tzconfig,               \* the timezone accumulator dict of the current device
    mq,                     \* the dispatch connection: "none", "open", "closed"
    callbacks,              \* subs with a registered message callback
    resp_data,              \* the dict the msg_received closures write into
    notified,               \* a waiter of msg_received_cond has been notified
    inflight,               \* responses on their way to the callback thread
    published,              \* history: the publishes that succeeded, in order
    outstanding,            \* history: published units whose wait is unresolved
    applied,                \* history: which response was applied for which unit
    attempted,              \* history: the units whose iteration was entered
    responses,              \* history: how many responses the devices have sent
    failures,               \* history: how many publishes have failed
    skipped,                \* history: the units that were skipped, and why
    tasmotas_at_call        \* history: the device list as it was at call time

call_vars == <<to_be_used_commands, values_to_send, tasmotas_at_call>>
online_vars == <<tasmota_online, values_to_send_online>>
mq_vars == <<mq, callbacks, resp_data, notified, inflight>>
history_vars ==
    <<published, outstanding, applied, attempted, responses, failures, skipped>>

dispatch_vars ==
    <<tasmotas, pc, num, index, tzconfig, call_vars, online_vars, mq_vars,
      history_vars>>

\* The default command set of send_cmds_to_online_tasmotas.
DefaultCommands ==
    <<"RULE1", "RULE2", "RULE3", "TIMEZONE", "LATITUDE", "LONGITUDE", "TIMEDST",
      "TIMESTD", "TELEPERIOD", "POWERDELTA1", "SETOPTION4", "TIMER1", "TIMER2",
      "TIMER3", "TIMER4">>

\* cmd[0:-1] for the commands whose last character is a digit.
DropLastDigit(cmd) ==
    CASE cmd \in {"RULE1", "RULE2", "RULE3"} -> "RULE"
      [] cmd = "POWERDELTA1" -> "POWERDELTA"
      [] cmd = "SETOPTION4" -> "SETOPTION"
      [] cmd \in {"TIMER1", "TIMER2", "TIMER3", "TIMER4"} -> "TIMER"
      [] OTHER -> cmd

\* cmd_to_topic_map[cmd]: the status subtopic on which the answer is expected.
cmd_to_topic_map(cmd) == DropLastDigit(cmd)

\* The key under which a Tasmota device reports the setting a command names
\* (the keys the dispatch reads at the match statement; Tasmota takes command
\* names case-insensitively).
ResponseKey(cmd) ==
    CASE cmd = "RULE1" -> "Rule1"
      [] cmd = "RULE2" -> "Rule2"
      [] cmd = "RULE3" -> "Rule3"
      [] cmd \in {"TIMEZONE", "TimeZone"} -> "Timezone"
      [] cmd \in {"LATITUDE", "Latitude"} -> "Latitude"
      [] cmd \in {"LONGITUDE", "Longitude"} -> "Longitude"
      [] cmd \in {"TIMEDST", "TimeDST"} -> "TimeDst"
      [] cmd \in {"TIMESTD", "TimeSTD"} -> "TimeStd"
      [] cmd = "TELEPERIOD" -> "TelePeriod"
      [] cmd = "POWERDELTA1" -> "PowerDelta1"
      [] cmd = "SETOPTION4" -> "SetOption4"
      [] cmd = "TIMER1" -> "Timer1"
      [] cmd = "TIMER2" -> "Timer2"
      [] cmd = "TIMER3" -> "Timer3"
      [] cmd = "TIMER4" -> "Timer4"
      [] OTHER -> cmd

\* The payload a device answers with: the setting it reports is the value it
\* was sent, or its current one when the command was a query (no value).
ResponsePayload(kind, cmd, sent) ==
    CASE kind = "ok" ->
            [isdict |-> TRUE,
             d |-> (ResponseKey(cmd) :> (IF sent = None THEN "current" ELSE sent))]
      [] kind = "unknown" -> [isdict |-> TRUE, d |-> ("Command" :> "Unknown")]
      [] kind = "malformed" -> [isdict |-> FALSE, d |-> ("raw" :> "text")]

ResponseKinds == {"ok", "unknown", "malformed"}

\* ---- the inputs of a call
DeviceTopics == <<"tasmota_A", "tasmota_B">>

StoredTz == [f \in TzFields |-> "stored"]

\* Device records as a snapshot or a discovery hands them to the dispatch:
\* online by the default value, online by a per-device value, offline, and
\* offline because the per-device value overrides the default.
OnlineByDefault == [online_msg |-> None, lwt |-> "Online", stored |-> FALSE]
OnlineByOwnMsg == [online_msg |-> "Connected", lwt |-> "Connected", stored |-> TRUE]
OfflineByDefault == [online_msg |-> None, lwt |-> "Offline", stored |-> TRUE]
OfflineByOwnMsg == [online_msg |-> "Connected", lwt |-> "Online", stored |-> FALSE]

DeviceLists ==
    { << >>,
      <<OnlineByDefault>>,
      <<OfflineByOwnMsg>>,
      <<OnlineByDefault, OnlineByOwnMsg>>,
      <<OfflineByDefault, OnlineByOwnMsg>>,
      <<OnlineByDefault, OfflineByOwnMsg>>,
      <<OfflineByDefault, OfflineByOwnMsg>> }

InputDevice(i, kind) ==
    LET old == IF kind.stored THEN "stored" ELSE None
        cfg == [TasmotaDeviceConfig EXCEPT
                   !.topic = DeviceTopics[i],
                   !.online_msg = kind.online_msg,
                   !.timezoneconfig = IF kind.stored THEN <<StoredTz>> ELSE << >>,
                   !.teleperiod = old]
    IN [TasmotaDevice EXCEPT
           !.tasmota_config = <<cfg>>,
           !.tasmota_rule1 = old,
           !.tasmota_rule2 = old,
           !.lwt_current_value = kind.lwt]

CommandLists == { <<"RULE1", "RULE2">>, <<"TIMEZONE", "LATITUDE">>, <<"TELEPERIOD">> }

\* No values (None), a list that is one entry short of the device list, and
\* for the one-command list one value for every device.
ValueLists(n, cmds) ==
    { << >> }
    \cup (IF n >= 2 THEN { [i \in 1..(n - 1) |-> << >>] } ELSE {})
    \cup (IF Len(cmds) = 1 THEN { [i \in 1..n |-> [c \in 1..Len(cmds) |-> "value"]] }
          ELSE {})

InitDispatch ==
    /\ \E kinds \in DeviceLists :
          tasmotas = [i \in 1..Len(kinds) |-> InputDevice(i, kinds[i])]
    /\ tasmotas_at_call = tasmotas
    /\ to_be_used_commands \in CommandLists
    /\ values_to_send \in ValueLists(Len(tasmotas), to_be_used_commands)
    /\ pc = "start"
    /\ tasmota_online = << >>
    /\ values_to_send_online = << >>
    /\ num = 0
    /\ index = 0
    /\ tzconfig = EmptyDict
    /\ mq = "none"
    /\ callbacks = {}
    /\ resp_data = EmptyDict
    /\ notified = FALSE
    /\ inflight = {}
    /\ published = << >>
    /\ outstanding = {}
    /\ applied = {}
    /\ attempted = {}
    /\ responses = 0
    /\ failures = 0
    /\ skipped = {}


\* ---- the dispatching thread
\* to_be_used_commands or [the default set]
Commands ==
    IF to_be_used_commands = << >> THEN DefaultCommands ELSE to_be_used_commands

\* values_to_send or [None for _ in tasmotas]
Values ==
    IF values_to_send = << >> THEN [i \in 1..Len(tasmotas) |-> << >>]
    ELSE values_to_send

\* A mutant of OnlineIndexes: the partition keeps every device.
AllIndexes == [i \in 1..Len(tasmotas) |-> i]

\* The positions of the devices that the partition loop keeps.
OnlineIndexes ==
    SelectSeq([i \in 1..Len(tasmotas) |-> i],
              LAMBDA i : is_online(tasmotas[i], "Online"))

\* The assertions of the partition: one value list per device, a configuration
\* on every device, and one value per command for every online device that
\* has values.
PartitionAsserts ==
    /\ Len(Values) = Len(tasmotas)
    /\ \A i \in 1..Len(tasmotas) :
          /\ tasmotas[i].tasmota_config # << >>
          /\ (is_online(tasmotas[i], "Online") /\ Values[i] # << >>)
                => Len(Values[i]) = Len(Commands)

Partition ==
    /\ pc = "start"
    /\ IF PartitionAsserts
       THEN /\ tasmota_online' = OnlineIndexes
            /\ values_to_send_online' =
                  [k \in 1..Len(OnlineIndexes) |-> Values[OnlineIndexes[k]]]
            /\ pc' = "connect"
       ELSE /\ pc' = "assertion_failed"
            /\ UNCHANGED <<tasmota_online, values_to_send_online>>
    /\ UNCHANGED <<tasmotas, num, index, tzconfig, call_vars, mq_vars,
                   history_vars>>

\* A fresh MosquittoClientWrapper is built and its loop started; the for loop
\* over the online devices begins.
Connect ==
    /\ pc = "connect"
    /\ mq' = "open"
    /\ IF tasmota_online = << >>
       THEN pc' = "disconnect" /\ num' = num
       ELSE pc' = "device" /\ num' = 1
    /\ UNCHANGED <<tasmotas, index, tzconfig, callbacks, resp_data, notified,
                   inflight, call_vars, online_vars, history_vars>>

td == tasmotas[tasmota_online[num]]
cmd == Commands[index]
vt == values_to_send_online[num]
to_send_value == IF vt # << >> THEN vt[index] ELSE None
result_topic == [dev |-> td.tasmota_config[1].topic, sub |-> "RESULT"]
cmd_res_topic == [dev |-> td.tasmota_config[1].topic, sub |-> cmd_to_topic_map(cmd)]
unit == [num |-> num, index |-> index]

BeginDevice ==
    /\ pc = "device"
    /\ tzconfig' = IF td.tasmota_config[1].timezoneconfig # << >>
                   THEN TzModelDump(td.tasmota_config[1].timezoneconfig[1])
                   ELSE EmptyDict
    /\ index' = 1
    /\ pc' = "register"
    /\ UNCHANGED <<tasmotas, num, call_vars, online_vars, mq_vars,
                   history_vars>>

\* A new condition and a new, empty resp_data are bound; msg_received is
\* registered for the two response topics of this command.
Register ==
    /\ pc = "register"
    /\ resp_data' = EmptyDict
    /\ notified' = FALSE
    /\ callbacks' = callbacks \cup {result_topic, cmd_res_topic}
    /\ attempted' = attempted \cup {unit}
    /\ pc' = "publish"
    /\ UNCHANGED <<tasmotas, num, index, tzconfig, mq, inflight, published,
                   outstanding, applied, responses, failures, skipped,
                   call_vars, online_vars>>

\* A mutant of Continue: the rest of the device's commands is given up.
Break ==
    /\ pc' = "enddevice"
    /\ index' = index

\* continue: on to the next command of the device, or past its last one.
Continue ==
    IF index < Len(Commands)
    THEN pc' = "register" /\ index' = index + 1
    ELSE pc' = "enddevice" /\ index' = index

\* A mutant of AfterPublish: the next command is sent without waiting.
AfterPublishNoWait == Continue

\* After a successful publish the thread goes on to wait for the answer.
AfterPublish == pc' = "published" /\ index' = index

\* The device answers a command it received on stat/<topic>/RESULT or (with
\* its SetOption4 on) on stat/<topic>/<mapped>, or does not answer; what is
\* not the report of a setting comes on stat/<topic>/RESULT.
DeviceAnswers ==
    \/ inflight' = inflight /\ responses' = responses
    \/ /\ responses < MaxResponses
       /\ responses' = responses + 1
       /\ \E t \in {result_topic, cmd_res_topic}, kind \in ResponseKinds :
             /\ kind # "ok" => t = result_topic
             /\ inflight' = inflight \cup
                 { [topic |-> t,
                    value |-> ResponsePayload(kind, cmd, to_send_value),
                    re |-> unit] }

\* The record of a skip of the current unit: arrived tells whether the
\* device's answer to the unit had reached the client by then.
Skip(mode) ==
    [unit |-> unit, mode |-> mode,
     arrived |-> /\ \E k \in 1..Len(published) :
                       /\ published[k].num = num
                       /\ published[k].index = index
                       /\ published[k].answered
                 /\ ~\E m \in inflight : m.re = unit]

\* mq.publish_one returned True.
PublishOk ==
    /\ pc = "publish"
    /\ DeviceAnswers
    /\ published' = Append(published,
                           [num |-> num, index |-> index,
                            topic |-> <<"cmnd", td.tasmota_config[1].topic, cmd>>,
                            value |-> to_send_value,
                            answered |-> (inflight' # inflight)])
    /\ outstanding' = outstanding \cup {unit}
    /\ AfterPublish
    /\ UNCHANGED <<tasmotas, num, tzconfig, mq, callbacks, resp_data,
                   notified, applied, attempted, failures, skipped, call_vars,
                   online_vars>>

\* mq.publish_one returned False: skip.
PublishFail ==
    /\ pc = "publish"
    /\ failures < MaxPublishFailures
    /\ failures' = failures + 1
    /\ skipped' = skipped \cup {Skip("publish")}
    /\ Continue
    /\ UNCHANGED <<tasmotas, num, tzconfig, published, outstanding, applied,
                   attempted, responses, call_vars, online_vars, mq_vars>>

\* The thread takes the condition's lock and starts msg_received_cond.wait.
EnterWait ==
    /\ pc = "published"
    /\ pc' = "wait1"
    /\ notified' = FALSE
    /\ UNCHANGED <<tasmotas, num, index, tzconfig, mq, callbacks, resp_data,
                   inflight, call_vars, online_vars, history_vars>>

\* The predicate of wait_for.
ResponsePresent ==
    result_topic \in DOMAIN resp_data \/ cmd_res_topic \in DOMAIN resp_data

\* wait returned True; wait_for evaluates its predicate before it waits.
Wait1Notified ==
    /\ pc = "wait1"
    /\ notified
    /\ notified' = FALSE
    /\ pc' = IF ResponsePresent THEN "apply" ELSE "wait2"
    /\ UNCHANGED <<tasmotas, num, index, tzconfig, mq, callbacks, resp_data,
                   inflight, call_vars, online_vars, history_vars>>

\* A mutant of WaitTimesOut: a wait without a timeout.
WaitNeverTimesOut == FALSE

\* A wait that has not been notified ends when its timeout expires.
WaitTimesOut == ~notified

\* wait returned False: skip.
Wait1Timeout ==
    /\ pc = "wait1"
    /\ WaitTimesOut
    /\ outstanding' = outstanding \ {unit}
    /\ skipped' = skipped \cup {Skip("wait1")}
    /\ Continue
    /\ UNCHANGED <<tasmotas, num, tzconfig, published, applied, attempted,
                   responses, failures, call_vars, online_vars, mq_vars>>

\* The wait inside wait_for was notified: the predicate is evaluated again.
Wait2Notified ==
    /\ pc = "wait2"
    /\ notified
    /\ notified' = FALSE
    /\ pc' = IF ResponsePresent THEN "apply" ELSE "wait2"
    /\ UNCHANGED <<tasmotas, num, index, tzconfig, mq, callbacks, resp_data,
                   inflight, call_vars, online_vars, history_vars>>

\* wait_for returned False: skip.
Wait2Timeout ==
    /\ pc = "wait2"
    /\ WaitTimesOut
    /\ outstanding' = outstanding \ {unit}
    /\ skipped' = skipped \cup {Skip("wait2")}
    /\ Continue
    /\ UNCHANGED <<tasmotas, num, tzconfig, published, applied, attempted,
                   responses, failures, call_vars, online_vars, mq_vars>>


\* msg_me = resp_data.get(result_topic, resp_data.get(cmd_res_topic, None))
msg_me ==
    IF result_topic \in DOMAIN resp_data THEN resp_data[result_topic]
    ELSE resp_data[cmd_res_topic]

\* del resp_data[result_topic]; del resp_data[cmd_res_topic] (where present)
ConsumedRemoved ==
    [k \in (DOMAIN resp_data) \ {result_topic, cmd_res_topic} |-> resp_data[k]]

\* The case of the match statement that a command selects.
MatchCase(c) ==
    CASE c \in {"RULE1", "RULE2", "RULE3"} -> "rule"
      [] c \in {"TIMEZONE", "LATITUDE", "LONGITUDE", "TIMEDST", "TIMESTD"} -> "tz"
      [] c \in {"TELEPERIOD", "POWERDELTA1", "SETOPTION4",
                "TIMER1", "TIMER2", "TIMER3", "TIMER4"} -> "config"
      [] OTHER -> "none"

\* The key of msg_me.value that the selected case reads.
MatchKey(c) ==
    CASE c = "RULE1" -> "Rule1"
      [] c = "RULE2" -> "Rule2"
      [] c = "RULE3" -> "Rule3"
      [] c = "TELEPERIOD" -> "TelePeriod"
      [] c = "POWERDELTA1" -> "PowerDelta1"
      [] c = "SETOPTION4" -> "SetOption4"
      [] c = "TIMER1" -> "Timer1"
      [] c = "TIMER2" -> "Timer2"
      [] c = "TIMER3" -> "Timer3"
      [] c = "TIMER4" -> "Timer4"

\* The field of the device (rules) or of its configuration that the case sets.
MatchField(c) ==
    CASE c = "RULE1" -> "tasmota_rule1"
      [] c = "RULE2" -> "tasmota_rule2"
      [] c = "RULE3" -> "tasmota_rule3"
      [] c = "TELEPERIOD" -> "teleperiod"
      [] c = "POWERDELTA1" -> "powerdelta1"
      [] c = "SETOPTION4" -> "setoption4"
      [] c = "TIMER1" -> "timer1"
      [] c = "TIMER2" -> "timer2"
      [] c = "TIMER3" -> "timer3"
      [] c = "TIMER4" -> "timer4"

IsUnknownCommand(value) ==
    "Command" \in DOMAIN value.d /\ value.d["Command"] = "Unknown"

\* The assertion on msg_me fails, or the selected case reads a key that the
\* response does not have (KeyError).
ResponseRaises ==
    \/ ~msg_me.value.isdict
    \/ /\ ~IsUnknownCommand(msg_me.value)
       /\ MatchCase(cmd) \in {"rule", "config"}
       /\ MatchKey(cmd) \notin DOMAIN msg_me.value.d

\* The exception leaves send_cmds_to_online_tasmotas: nothing after the raise
\* runs, mq.disconnect() included.
ApplyRaise ==
    /\ pc = "apply"
    /\ ResponseRaises
    /\ pc' = "raised"
    /\ UNCHANGED <<tasmotas, num, index, tzconfig, call_vars, online_vars,
                   mq_vars, history_vars>>

\* {"Command": "Unknown"}: the entries are deleted and the command skipped.
ApplyUnknown ==
    /\ pc = "apply"
    /\ ~ResponseRaises
    /\ IsUnknownCommand(msg_me.value)
    /\ resp_data' = ConsumedRemoved
    /\ outstanding' = outstanding \ {unit}
    /\ skipped' = skipped \cup {Skip("unknown")}
    /\ Continue
    /\ UNCHANGED <<tasmotas, num, tzconfig, mq, callbacks, notified,
                   inflight, published, applied, attempted, responses,
                   failures, call_vars, online_vars>>

\* The match statement: the device record, or the timezone accumulator, takes
\* the value of the response.
MatchApplied ==
    LET i == tasmota_online[num]
        d == msg_me.value.d
    IN CASE MatchCase(cmd) = "rule" ->
              /\ tasmotas' = [tasmotas EXCEPT ![i][MatchField(cmd)] = d[MatchKey(cmd)]]
              /\ tzconfig' = tzconfig
         [] MatchCase(cmd) = "config" ->
              /\ tasmotas' = [tasmotas EXCEPT
                     ![i].tasmota_config[1][MatchField(cmd)] = d[MatchKey(cmd)]]
              /\ tzconfig' = tzconfig
         [] MatchCase(cmd) = "tz" ->
              /\ tzconfig' = DictUpdate(tzconfig, d)
              /\ tasmotas' = tasmotas
         [] OTHER -> UNCHANGED <<tasmotas, tzconfig>>

\* A response is applied, its entries are deleted and the two callbacks of
\* the command are removed.
ApplyResponse ==
    /\ pc = "apply"
    /\ ~ResponseRaises
    /\ ~IsUnknownCommand(msg_me.value)
    /\ MatchApplied
    /\ applied' = IF MatchCase(cmd) = "none" THEN applied
                  ELSE applied \cup {[unit |-> unit, re |-> msg_me.re]}
    /\ resp_data' = ConsumedRemoved
    /\ callbacks' = callbacks \ {result_topic, cmd_res_topic}
    /\ outstanding' = outstanding \ {unit}
    /\ Continue
    /\ UNCHANGED <<num, mq, notified, inflight, published, attempted,
                   responses, failures, skipped, call_vars, online_vars>>

\* After the commands of a device: a non-empty accumulator replaces the
\* device's timezoneconfig; then the next device, or the end of the loop.
EndDevice ==
    /\ pc = "enddevice"
    /\ tasmotas' =
          IF DOMAIN tzconfig # {}
          THEN [tasmotas EXCEPT ![tasmota_online[num]].tasmota_config[1].timezoneconfig =
                                    <<TasmotaTimezoneConfig(tzconfig)>>]
          ELSE tasmotas
    /\ IF num < Len(tasmota_online)
       THEN pc' = "device" /\ num' = num + 1
       ELSE pc' = "disconnect" /\ num' = num
    /\ UNCHANGED <<index, tzconfig, call_vars, online_vars, mq_vars,
                   history_vars>>

\* mq.disconnect(); return tasmotas.  What has not reached the client by
\* now never does.
Disconnect ==
    /\ pc = "disconnect"
    /\ mq' = "closed"
    /\ inflight' = {}
    /\ pc' = "done"
    /\ UNCHANGED <<tasmotas, num, index, tzconfig, callbacks, resp_data,
                   notified, call_vars, online_vars, history_vars>>

\* ---- the callback thread of the dispatch connection
\* A response reaches the client.  When a callback is registered for its
\* topic, msg_received runs: under the lock of the condition that is bound
\* now, it notifies the waiters and stores the message in the resp_data that
\* is bound now (the closure reads both names when it runs).
MsgReceived ==
    /\ mq = "open"
    /\ \E m \in inflight :
          /\ inflight' = inflight \ {m}
          /\ IF m.topic \in callbacks
             THEN /\ resp_data' = DictUpdate(resp_data, (m.topic :> m))
                  /\ notified' = (notified \/ pc \in {"wait1", "wait2"})
             ELSE UNCHANGED <<resp_data, notified>>
    /\ UNCHANGED <<tasmotas, pc, num, index, tzconfig, mq, callbacks,
                   call_vars, online_vars, history_vars>>

DispatchThread ==
    \/ Partition \/ Connect \/ BeginDevice \/ Register \/ PublishOk
    \/ PublishFail \/ EnterWait \/ Wait1Notified \/ Wait1Timeout
    \/ Wait2Notified \/ Wait2Timeout \/ ApplyRaise \/ ApplyUnknown
    \/ ApplyResponse \/ EndDevice \/ Disconnect

\* No dispatch is under way.
NoDispatch ==
    /\ tasmotas = << >>
    /\ tasmotas_at_call = << >>
    /\ to_be_used_commands = << >>
    /\ values_to_send = << >>
    /\ pc = "idle"
    /\ tasmota_online = << >>
    /\ values_to_send_online = << >>
    /\ num = 0
    /\ index = 0
    /\ tzconfig = EmptyDict
    /\ mq = "none"
    /\ callbacks = {}
    /\ resp_data = EmptyDict
    /\ notified = FALSE
    /\ inflight = {}
    /\ published = << >>
    /\ outstanding = {}
    /\ applied = {}
    /\ attempted = {}
    /\ responses = 0
    /\ failures = 0
    /\ skipped = {}

\* ------------------- tasmotacommander.py: topic filter, discovery, filtering
VARIABLES
    retained,        \* the retained messages the broker delivers to a fresh session
    msg_topicname_startwith_drop_filter,  \* the commander's drop-prefixes (Optional set)
    all_tasmotas,    \* the device list handed to filter_online_tasmotas_from_retained
    update_lwt_current_value,             \* its flag
    discovery,       \* what the operation under way has done: "start", "devices", "filtered", "raised"
    devices,         \* the list get_all_tasmota_devices_from_retained returned
    online_tasmotas, \* the list the filter returned: indexes into all_tasmotas
    all_tasmotas_at_call                  \* history: all_tasmotas as it was at call time

discovery_vars ==
    <<retained, msg_topicname_startwith_drop_filter, all_tasmotas,
      update_lwt_current_value, discovery, devices, online_tasmotas,
      all_tasmotas_at_call>>

\* str.startswith, on topics whose segments are whole names: the segments of
\* the prefix are the first segments of the topic.
StartsWith(topic, prefix) ==
    /\ Len(prefix) <= Len(topic)
    /\ \A i \in 1..Len(prefix) : topic[i] = prefix[i]

\* str.endswith for a suffix that is one segment.
EndsWith(topic, segment) == Len(topic) >= 1 /\ topic[Len(topic)] = segment

RECURSIVE Repeat(_, _)
Repeat(x, n) == IF n = 0 THEN << >> ELSE <<x>> \o Repeat(x, n - 1)

\* A mutant of FilterLoop: a message is kept once when its topic starts with
\* none of the drop-prefixes.
FilterOnce(msgs, prefixes) ==
    SelectSeq(msgs, LAMBDA m : \A sw \in prefixes : ~StartsWith(m.topic, sw))

RECURSIVE FilterLoop(_, _)
\* The loops of apply_topic_filter: a message is appended once for every
\* drop-prefix its topic does not start with.
FilterLoop(msgs, prefixes) ==
    IF msgs = << >> THEN << >>
    ELSE Repeat(Head(msgs),
                Cardinality({sw \in prefixes : ~StartsWith(Head(msgs).topic, sw)}))
         \o FilterLoop(Tail(msgs), prefixes)

\* MqttCommander.apply_topic_filter on Optional arguments; the result is an
\* Optional list (None when nothing was appended).
apply_topic_filter(drop_filter, msgs) ==
    IF drop_filter = << >> \/ msgs = << >> THEN msgs
    ELSE IF FilterLoop(msgs[1], drop_filter[1]) = << >> THEN << >>
    ELSE <<FilterLoop(msgs[1], drop_filter[1])>>

\* MqttCommander.get_all_retained: a fresh read of the retained messages
\* (None when there are none), then the topic filter.
get_all_retained(drop_filter, batch) ==
    apply_topic_filter(drop_filter, IF batch = << >> THEN << >> ELSE <<batch>>)


TASMOTA_DISCOVERY_TOPIC_BEGIN == <<"tasmota", "discovery">>
TASMOTA_LWT_TOPIC_BEGIN == <<"tele">>
TASMOTA_LWT_TOPIC_END == "LWT"

\* msg.value as the decoder hands it over: the raw string of a payload that
\* is not JSON, else the decoded object.
PayloadValue(value) == IF value.isdict THEN "{...}" ELSE value.d["raw"]

\* The first of two alias choices that is a key of the payload, else None.
AliasChoices(d, first, second) ==
    IF first \in DOMAIN d THEN d[first]
    ELSE IF second \in DOMAIN d THEN d[second]
    ELSE None

\* TasmotaDeviceConfig(**d): every field takes the first of its alias choices
\* that is a key of d; timezoneconfig has no alias.
ParseDeviceConfig(d) ==
    [topic |-> AliasChoices(d, "t", "topic"),
     online_msg |-> AliasChoices(d, "onln", "online_msg"),
     timezoneconfig |->
         IF "timezoneconfig" \in DOMAIN d /\ d["timezoneconfig"] # << >>
         THEN <<TasmotaTimezoneConfig(d["timezoneconfig"][1])>>
         ELSE << >>,
     teleperiod |-> AliasChoices(d, "TelePeriod", "teleperiod"),
     powerdelta1 |-> AliasChoices(d, "PowerDelta1", "powerdelta1"),
     setoption4 |-> AliasChoices(d, "SetOption4", "setoption4"),
     timer1 |-> AliasChoices(d, "Timer1", "timer1"),
     timer2 |-> AliasChoices(d, "Timer2", "timer2"),
     timer3 |-> AliasChoices(d, "Timer2", "timer3"),
     timer4 |-> AliasChoices(d, "Timer4", "timer4")]

\* msg.topic[0:rfind("/")] and then [rfind("/") + 1:]: the segment before the
\* last one.
maclookupkey(topic) == topic[Len(topic) - 1]

\* A mutant of LookupOrCreate: a record is created for every message.
AlwaysCreate(st, key, new) ==
    [st EXCEPT !.ret = Append(st.ret, new),
               !.tdlookup = DictUpdate(st.tdlookup, (key :> Len(st.ret) + 1))]

\* td = tdlookup.get(key); a miss creates the record new, indexes it under key and appends
\* it to ret.  The records of ret are the objects; tdlookup holds positions.
LookupOrCreate(st, key, new) ==
    IF key \in DOMAIN st.tdlookup THEN st
    ELSE [st EXCEPT !.ret = Append(st.ret, new),
                    !.tdlookup = DictUpdate(st.tdlookup, (key :> Len(st.ret) + 1))]

\* One iteration of the first loop (discovery messages).
DiscoveryStep(st, msg) ==
    IF st.raised \/ ~StartsWith(msg.topic, TASMOTA_DISCOVERY_TOPIC_BEGIN) THEN st
    ELSE
      LET key == maclookupkey(msg.topic)
          st1 == LookupOrCreate(st, key, TasmotaDevice)
          at == st1.tdlookup[key]
      IN IF EndsWith(msg.topic, "config")
         THEN IF ~msg.value.isdict THEN [st1 EXCEPT !.raised = TRUE]
              ELSE LET cfg == ParseDeviceConfig(msg.value.d)
                       st2 == [st1 EXCEPT !.ret[at].tasmota_config = <<cfg>>]
                   IN IF ~Truthy(cfg.topic) THEN [st2 EXCEPT !.raised = TRUE]
                      ELSE [st2 EXCEPT !.tdlookup =
                                DictUpdate(st2.tdlookup, (cfg.topic :> at))]
         ELSE IF EndsWith(msg.topic, "sensors")
         THEN IF ~msg.value.isdict \/ "sn" \notin DOMAIN msg.value.d
              THEN [st1 EXCEPT !.raised = TRUE]
              ELSE [st1 EXCEPT !.ret[at].tasmota_sensors = msg.value.d["sn"]]
         ELSE st1

\* One iteration of the second loop (LWT messages).
LwtStep(st, msg) ==
    IF st.raised
       \/ ~(StartsWith(msg.topic, TASMOTA_LWT_TOPIC_BEGIN) /\ Len(msg.topic) >= 2
            /\ EndsWith(msg.topic, TASMOTA_LWT_TOPIC_END))
    THEN st
    ELSE
      LET mytopic == msg.topic[2]
          st1 == LookupOrCreate(st, mytopic,
                     [TasmotaDevice EXCEPT !.tasmota_config =
                         <<[TasmotaDeviceConfig EXCEPT !.topic = mytopic]>>])
          at == st1.tdlookup[mytopic]
      IN [st1 EXCEPT !.ret[at].lwt_current_value = PayloadValue(msg.value)]

RECURSIVE DiscoveryLoop(_, _)
DiscoveryLoop(st, msgs) ==
    IF msgs = << >> THEN st
    ELSE DiscoveryLoop(DiscoveryStep(st, Head(msgs)), Tail(msgs))

RECURSIVE LwtLoop(_, _)
LwtLoop(st, msgs) ==
    IF msgs = << >> THEN st
    ELSE LwtLoop(LwtStep(st, Head(msgs)), Tail(msgs))

\* MqttCommander.get_all_tasmota_devices_from_retained: the retained read,
\* the discovery loop and the LWT loop.  ret is the returned list; raised
\* tells that an assertion failed on the way.
get_all_tasmota_devices_from_retained(drop_filter, batch) ==
    LET msgs == get_all_retained(drop_filter, batch)
        st0 == [ret |-> << >>, tdlookup |-> EmptyDict, raised |-> FALSE]
    IN IF msgs = << >> THEN st0
       ELSE LwtLoop(DiscoveryLoop(st0, msgs[1]), msgs[1])


RECURSIVE AllTopics(_)
\* A mutant of OnlineTopics: every fresh record is entered, online or not.
AllTopics(fresh) ==
    IF fresh = << >> THEN EmptyDict
    ELSE LET tdo == fresh[Len(fresh)]
         IN DictUpdate(AllTopics(SubSeq(fresh, 1, Len(fresh) - 1)),
                       (tdo.tasmota_config[1].topic :> tdo.lwt_current_value))

RECURSIVE OnlineTopics(_)
\* The first loop of the filter: online_topics[topic] = lwt_current_value for
\* every fresh record that is online (a later record replaces an earlier one).
OnlineTopics(fresh) ==
    IF fresh = << >> THEN EmptyDict
    ELSE LET tdo == fresh[Len(fresh)]
             before == OnlineTopics(SubSeq(fresh, 1, Len(fresh) - 1))
         IN IF is_online(tdo, "Online")
            THEN DictUpdate(before, (tdo.tasmota_config[1].topic :> tdo.lwt_current_value))
            ELSE before

RECURSIVE FilterDevices(_, _, _, _)
\* The second loop of the filter, from position i on: a device whose topic is
\* a key of online_topics is appended to ret (and takes the fresh LWT value
\* when update is set); a device without a configuration fails the assertion.
FilterDevices(st, i, online_topics, update) ==
    IF i > Len(st.all) THEN st
    ELSE IF st.all[i].tasmota_config = << >> THEN [st EXCEPT !.raised = TRUE]
    ELSE LET topic == st.all[i].tasmota_config[1].topic
         IN IF topic \in DOMAIN online_topics
            THEN FilterDevices(
                    [st EXCEPT !.all[i].lwt_current_value =
                                   IF update THEN online_topics[topic] ELSE @,
                               !.ret = Append(@, i)],
                    i + 1, online_topics, update)
            ELSE FilterDevices(st, i + 1, online_topics, update)

\* MqttCommander.filter_online_tasmotas_from_retained: all is the device list
\* after the call, ret the positions in it of the returned devices.
filter_online_tasmotas_from_retained(drop_filter, batch, all, update) ==
    LET fresh == get_all_tasmota_devices_from_retained(drop_filter, batch)
        st0 == [all |-> all, ret |-> << >>, raised |-> FALSE]
    IN IF fresh.raised \/ \E i \in 1..Len(fresh.ret) : fresh.ret[i].tasmota_config = << >>
       THEN [st0 EXCEPT !.raised = TRUE]
       ELSE FilterDevices(st0, 1, OnlineTopics(fresh.ret), update)

\* ---- the retained batches and the device lists of the model
DiscoveryKeys == {"AABBCC", "DDEEFF"}
Topics == {"tasmota_X", "tasmota_Y"}

Dict(d) == [isdict |-> TRUE, d |-> d]
Raw(text) == [isdict |-> FALSE, d |-> ("raw" :> text)]

ConfigMessages ==
    { [topic |-> <<"tasmota", "discovery", k, "config">>, value |-> Dict(("t" :> t))] :
         k \in DiscoveryKeys, t \in Topics }
    \cup
    { [topic |-> <<"tasmota", "discovery", "AABBCC", "config">>,
       value |-> Dict(("t" :> "tasmota_X") @@ ("onln" :> "Connected"))] }

SensorsMessages ==
    { [topic |-> <<"tasmota", "discovery", "AABBCC", "sensors">>,
       value |-> Dict(("sn" :> "sensors"))] }

LwtMessages ==
    { [topic |-> <<"tele", t, "LWT">>, value |-> Raw(p)] :
         t \in Topics, p \in {"Online", "Offline"} }
    \cup { [topic |-> <<"tele", "tasmota_X", "LWT">>, value |-> Raw("Connected")],
           [topic |-> <<"tele", "rtl_433", "LWT">>, value |-> Raw("Online")] }

RetainedMessages == ConfigMessages \cup SensorsMessages \cup LwtMessages

\* A broker retains one message per topic.
RetainedBatches ==
    { b \in UNION { [1..n -> RetainedMessages] : n \in 0..MaxBatch } :
         \A i, j \in 1..Len(b) : b[i].topic = b[j].topic => i = j }

SnapshotDevice(topic, online_msg, lwt) ==
    [TasmotaDevice EXCEPT
        !.tasmota_config = <<[TasmotaDeviceConfig EXCEPT !.topic = topic,
                                                         !.online_msg = online_msg]>>,
        !.lwt_current_value = lwt]

\* Lists as a snapshot file holds them; the last one ends with a record
\* that has no configuration.
SnapshotLists ==
    { << >>,
      <<SnapshotDevice("tasmota_X", None, "Offline")>>,
      <<SnapshotDevice("tasmota_Y", None, None),
        SnapshotDevice("tasmota_X", "Connected", "Connected")>>,
      <<SnapshotDevice("tasmota_X", None, "Online"),
        SnapshotDevice("tasmota_Y", None, "Online")>>,
      <<SnapshotDevice("tasmota_Y", None, "Offline"),
        SnapshotDevice("tasmota_Y", None, "Offline")>>,
      <<SnapshotDevice("tasmota_X", None, None), TasmotaDevice>> }

\* The drop filter of a commander built without one: a copy of the default set.
DefaultDropFilter == << {<<"tele", "rtl_433">>} >>

InitDiscovery ==
    /\ retained \in RetainedBatches
    /\ msg_topicname_startwith_drop_filter = DefaultDropFilter
    /\ all_tasmotas = << >>
    /\ all_tasmotas_at_call = << >>
    /\ update_lwt_current_value = FALSE
    /\ discovery = "start"
    /\ devices = << >>
    /\ online_tasmotas = << >>

NoDiscovery ==
    /\ retained = << >>
    /\ msg_topicname_startwith_drop_filter = DefaultDropFilter
    /\ all_tasmotas = << >>
    /\ all_tasmotas_at_call = << >>
    /\ update_lwt_current_value = FALSE
    /\ discovery = "idle"
    /\ devices = << >>
    /\ online_tasmotas = << >>

\* A call of get_all_tasmota_devices_from_retained.
GetAllTasmotaDevicesFromRetained ==
    /\ discovery = "start"
    /\ LET st == get_all_tasmota_devices_from_retained(
                     msg_topicname_startwith_drop_filter, retained)
       IN IF st.raised
          THEN discovery' = "raised" /\ devices' = devices
          ELSE discovery' = "devices" /\ devices' = st.ret
    /\ UNCHANGED <<retained, msg_topicname_startwith_drop_filter, all_tasmotas,
                   update_lwt_current_value, online_tasmotas, all_tasmotas_at_call>>

\* A call of filter_online_tasmotas_from_retained on the list all.
FilterOnlineTasmotasFromRetained(all, update) ==
    LET st == filter_online_tasmotas_from_retained(
                  msg_topicname_startwith_drop_filter, retained, all, update)
    IN /\ all_tasmotas_at_call' = all
       /\ update_lwt_current_value' = update
       /\ all_tasmotas' = st.all
       /\ online_tasmotas' = st.ret
       /\ discovery' = IF st.raised THEN "raised" ELSE "filtered"
       /\ UNCHANGED <<retained, msg_topicname_startwith_drop_filter, devices>>

\* The filter is given a list that was loaded from a snapshot.
FilterSnapshot ==
    /\ discovery = "start"
    /\ \E all \in SnapshotLists, update \in BOOLEAN :
          FilterOnlineTasmotasFromRetained(all, update)

\* The filter is given the list that a discovery returned (list-online).
FilterDiscovered ==
    /\ discovery = "devices"
    /\ \E update \in BOOLEAN : FilterOnlineTasmotasFromRetained(devices, update)

\* ---- calls of TasmotaDevice.is_online
VARIABLES
    device,            \* the record is_online is called on
    online_default,    \* the argument lwt_online_default_value
    online             \* << >> before the call, <<result>> after it

is_online_vars == <<device, online_default, online>>

OnlineMsgs == {None, "", "Online", "Connected", "Offline"}
LwtValues == {None, "", "Online", "Connected", "Offline"}

InitIsOnline ==
    /\ device \in
          { [TasmotaDevice EXCEPT !.lwt_current_value = lwt] : lwt \in LwtValues }
          \cup { SnapshotDevice("tasmota_X", m, lwt) : m \in OnlineMsgs, lwt \in LwtValues }
    /\ online_default \in {"Online", "Connected"}
    /\ online = << >>

NoIsOnline ==
    /\ device = TasmotaDevice
    /\ online_default = "Online"
    /\ online = << >>

IsOnline ==
    /\ online = << >>
    /\ online' = <<is_online(device, online_default)>>
    /\ UNCHANGED <<device, online_default>>

\* ---- calls of the functions that keep no state between calls
VARIABLES
    call_args,         \* the arguments of the call (and what it reads)
    call_result,       \* << >> before the call, <<result>> after it
    tasmota_json_dir   \* the snapshot directory: the set of its files

call_vars_pure == <<call_args, call_result, tasmota_json_dir>>

NoCall ==
    /\ call_args = << >>
    /\ call_result = << >>
    /\ tasmota_json_dir = {}

vars == <<dispatch_vars, discovery_vars, is_online_vars, call_vars_pure>>

\* ---- command dispatch
Init == InitDispatch /\ NoDiscovery /\ NoIsOnline /\ NoCall

idle_in_dispatch == <<discovery_vars, is_online_vars, call_vars_pure>>

Next ==
    \/ Partition /\ UNCHANGED idle_in_dispatch
    \/ Connect /\ UNCHANGED idle_in_dispatch
    \/ BeginDevice /\ UNCHANGED idle_in_dispatch
    \/ Register /\ UNCHANGED idle_in_dispatch
    \/ PublishOk /\ UNCHANGED idle_in_dispatch
    \/ PublishFail /\ UNCHANGED idle_in_dispatch
    \/ EnterWait /\ UNCHANGED idle_in_dispatch
    \/ Wait1Notified /\ UNCHANGED idle_in_dispatch
    \/ Wait1Timeout /\ UNCHANGED idle_in_dispatch
    \/ Wait2Notified /\ UNCHANGED idle_in_dispatch
    \/ Wait2Timeout /\ UNCHANGED idle_in_dispatch
    \/ ApplyRaise /\ UNCHANGED idle_in_dispatch
    \/ ApplyUnknown /\ UNCHANGED idle_in_dispatch
    \/ ApplyResponse /\ UNCHANGED idle_in_dispatch
    \/ EndDevice /\ UNCHANGED idle_in_dispatch
    \/ Disconnect /\ UNCHANGED idle_in_dispatch
    \/ MsgReceived /\ UNCHANGED idle_in_dispatch

Spec == Init /\ [][Next]_vars

\* The dispatching thread keeps running until the call has ended.
FairSpec == Spec /\ WF_vars(DispatchThread /\ UNCHANGED idle_in_dispatch)

\* ---- discovery aggregation and online filtering
DiscoveryInit == InitDiscovery /\ NoDispatch /\ NoIsOnline /\ NoCall

DiscoveryNext ==
    \/ GetAllTasmotaDevicesFromRetained /\ UNCHANGED <<dispatch_vars, is_online_vars, call_vars_pure>>
    \/ FilterSnapshot /\ UNCHANGED <<dispatch_vars, is_online_vars, call_vars_pure>>
    \/ FilterDiscovered /\ UNCHANGED <<dispatch_vars, is_online_vars, call_vars_pure>>

DiscoverySpec == DiscoveryInit /\ [][DiscoveryNext]_vars

\* ---- the online test
IsOnlineInit == InitIsOnline /\ NoDispatch /\ NoDiscovery /\ NoCall

IsOnlineNext == IsOnline /\ UNCHANGED <<dispatch_vars, discovery_vars, call_vars_pure>>

IsOnlineSpec == IsOnlineInit /\ [][IsOnlineNext]_vars

\* ------------------------------------------------- properties: dispatch
\* The call has ended: it returned, or an exception left it.
Ended == pc \in {"done", "raised", "assertion_failed"}

OfflineAtCall(i) == ~is_online(tasmotas_at_call[i], "Online")

TopicAtCall(i) == tasmotas_at_call[i].tasmota_config[1].topic

Before(p, q) == p.num < q.num \/ (p.num = q.num /\ p.index < q.index)

\* C2: publishes are issued strictly sequentially in device order, then
\* command order: when a command is published no earlier command's wait is
\* unresolved, so at most one command is outstanding at any time, and every
\* publish is the command of its (device, command) position.
C2_OneOutstanding ==
    /\ Cardinality(outstanding) <= 1
    /\ pc = "publish" => outstanding = {}
    /\ \A j, k \in 1..Len(published) : j < k => Before(published[j], published[k])
    /\ \A k \in 1..Len(published) :
          published[k].topic[3] = Commands[published[k].index]

\* Two commands were published to each of two devices, and the call returned.
C2_Witness ==
    /\ pc = "done"
    /\ Len(published) = 4
    /\ published[1].num = 1
    /\ published[4].num = 2

\* C3: whenever a response is applied as the result of command C for device
\* D, that response was sent by D in reply to C.
C3_ResponseIsReplyToCommand == \A a \in applied : a.re = a.unit

\* The field of a device record that a command of the model reports on.
CommandField(devs, u) ==
    LET d == devs[tasmota_online[u.num]]
        c == Commands[u.index]
    IN CASE MatchCase(c) = "rule" -> d[MatchField(c)]
         [] MatchCase(c) = "config" -> d.tasmota_config[1][MatchField(c)]
         [] c = "TIMEZONE" ->
               IF d.tasmota_config[1].timezoneconfig = << >> THEN None
               ELSE d.tasmota_config[1].timezoneconfig[1].timezone
         [] c = "LATITUDE" ->
               IF d.tasmota_config[1].timezoneconfig = << >> THEN None
               ELSE d.tasmota_config[1].timezoneconfig[1].latitude

\* The units whose wait timed out before any answer to them had arrived.
TimedOut ==
    { s.unit : s \in { x \in skipped : x.mode \in {"wait1", "wait2"} /\ ~x.arrived } }

\* C4: when no response to a published command arrives within the timeout
\* window, the device field of that command has its prior value when the
\* call returns, and the call is not left by an exception on account of that
\* command.
C4_TimeoutKeepsField ==
    \A u \in TimedOut :
        /\ pc = "done" => CommandField(tasmotas, u) = CommandField(tasmotas_at_call, u)
        /\ pc = "raised" => msg_me.re # u

\* Every (device, command) unit of the call.
AllUnits ==
    { [num |-> n, index |-> i] : n \in 1..Len(tasmota_online), i \in 1..Len(Commands) }

\* C5: a unit that met one of the four failure modes is only skipped: no
\* response to it changes the device record, no response to it ends the
\* batch, and a call that returns has entered every unit.
C5_FailureOnlySkips ==
    /\ \A a \in applied : a.re \notin { s.unit : s \in skipped }
    /\ pc = "raised" => msg_me.re \notin { s.unit : s \in skipped }
    /\ pc = "done" => attempted = AllUnits

\* C6: the dispatch connection has been disconnected whenever the call has
\* ended.
C6_DisconnectedWhenEnded == Ended => mq # "open"

\* C7: the call always terminates; when no device ever responds, every wait
\* times out and the call reaches disconnect and returns (unless the
\* precondition assertions stopped it at once).
C7_Terminates ==
    /\ <>Ended
    /\ <>(responses > 0 \/ pc \in {"done", "assertion_failed"})

\* A call returned although no device ever responded and every wait of its
\* four commands timed out.
C7_Witness ==
    /\ pc = "done"
    /\ responses = 0
    /\ Cardinality({ s \in skipped : s.mode = "wait1" }) = 4

\* ------------------------------- properties: discovery and online filter
IsConfigMessage(msg) ==
    /\ Len(msg.topic) = 4
    /\ SubSeq(msg.topic, 1, 2) = <<"tasmota", "discovery">>
    /\ msg.topic[4] = "config"

IsLwtMessageFor(msg, topic) == msg.topic = <<"tele", topic, "LWT">>

\* The positions in the returned list of the records with a topic.
RecordsOf(topic) ==
    { k \in 1..Len(devices) :
         /\ devices[k].tasmota_config # << >>
         /\ devices[k].tasmota_config[1].topic = topic }

\* C8: when the batch holds a discovery config message declaring topic T and
\* an LWT message on tele/T/LWT with payload P, in any order, the aggregation
\* returns exactly one record with topic T, and its lwt_current_value is P.
C8_OneRecordWithLwt ==
    discovery = "devices" =>
        \A i, j \in 1..Len(retained) :
            LET T == retained[i].value.d["t"]
            IN (IsConfigMessage(retained[i]) /\ IsLwtMessageFor(retained[j], T)) =>
                  /\ Cardinality(RecordsOf(T)) = 1
                  /\ \A k \in RecordsOf(T) :
                        devices[k].lwt_current_value = retained[j].value.d["raw"]

\* The topics of the records that a fresh discovery fetch observes online.
FreshOnlineTopics ==
    LET fresh == get_all_tasmota_devices_from_retained(
                     msg_topicname_startwith_drop_filter, retained).ret
    IN { fresh[k].tasmota_config[1].topic :
            k \in { n \in 1..Len(fresh) : is_online(fresh[n], "Online") } }

\* The LWT values of the records with a topic that the fetch observes online.
FreshLwtValues(topic) ==
    LET fresh == get_all_tasmota_devices_from_retained(
                     msg_topicname_startwith_drop_filter, retained).ret
    IN { fresh[k].lwt_current_value :
            k \in { n \in 1..Len(fresh) :
                      /\ is_online(fresh[n], "Online")
                      /\ fresh[n].tasmota_config[1].topic = topic } }

Returned == { online_tasmotas[k] : k \in 1..Len(online_tasmotas) }

\* C9: whenever the filter returns, the returned devices are exactly the
\* devices of all_tasmotas, in input order and as the same objects, whose
\* topic is the topic of a record the fresh fetch observed online; with the
\* update flag a returned device differs from what it was only in its
\* lwt_current_value, which is the freshly observed one; without the flag no
\* device is modified; a device that is not returned is never modified.
C9_FilterReturnsOnline ==
    discovery = "filtered" =>
        /\ online_tasmotas =
              SelectSeq([i \in 1..Len(all_tasmotas_at_call) |-> i],
                        LAMBDA i : all_tasmotas_at_call[i].tasmota_config[1].topic
                                      \in FreshOnlineTopics)
        /\ Len(all_tasmotas) = Len(all_tasmotas_at_call)
        /\ \A i \in 1..Len(all_tasmotas) :
              IF update_lwt_current_value /\ i \in Returned
              THEN /\ all_tasmotas[i].lwt_current_value
                         \in FreshLwtValues(all_tasmotas[i].tasmota_config[1].topic)
                   /\ all_tasmotas[i] =
                         [all_tasmotas_at_call[i] EXCEPT
                             !.lwt_current_value = all_tasmotas[i].lwt_current_value]
              ELSE all_tasmotas[i] = all_tasmotas_at_call[i]

\* The filter returned one of two devices and overwrote its LWT value.
C9_Witness ==
    /\ discovery = "filtered"
    /\ update_lwt_current_value
    /\ Len(online_tasmotas) = 1
    /\ Len(all_tasmotas) = 2
    /\ all_tasmotas # all_tasmotas_at_call

\* ------------------------------------------- properties: the online test
\* C10: is_online() is true exactly when lwt_current_value equals the
\* configured online_msg if the device has one (a configuration with a
\* non-empty online_msg), and "Online" otherwise; so a device configured with
\* "Connected" is online for "Connected" and offline for "Online", and a
\* device whose lwt_current_value is absent is never online.
C10_IsOnline ==
    (online # << >> /\ online_default = "Online") =>
        LET lwt == device.lwt_current_value
            configured == IF device.tasmota_config = << >> THEN None
                          ELSE device.tasmota_config[1].online_msg
            expected == IF configured \in {None, ""} THEN "Online" ELSE configured
        IN /\ online[1] <=> lwt = expected
           /\ (configured = "Connected" /\ lwt = "Connected") => online[1]
           /\ (configured = "Connected" /\ lwt = "Online") => ~online[1]
           /\ lwt = None => ~online[1]

\* is_online() answered "offline" for a device that reports "Online" but is
\* configured with "Connected".
C10_Witness ==
    /\ online = <<FALSE>>
    /\ online_default = "Online"
    /\ device.lwt_current_value = "Online"
    /\ device.tasmota_config # << >>
    /\ device.tasmota_config[1].online_msg = "Connected"

\* ---------------------------------------- properties: the LWT value domain
\* C11: every record that discovery aggregation returns has an
\* lwt_current_value that is "Online", "Offline" or absent, whatever payloads
\* the retained LWT messages carry.
C11_LwtValueDomain ==
    \A k \in 1..Len(devices) :
        devices[k].lwt_current_value \in {None, "Online", "Offline"}

\* ------------------------------------------------ calls of stateless code
\* Every other part of the program is idle while such a call is made.
IdleForCall == NoDispatch /\ NoDiscovery /\ NoIsOnline /\ tasmota_json_dir = {}

idle_in_call == <<dispatch_vars, discovery_vars, is_online_vars, tasmota_json_dir>>

\* ---- apply_topic_filter
MaxPrefixes == 2          \* drop-prefixes configured at once

\* msg_topicname_startwith_drop_filter: None, or a set of prefixes.
DropFilters ==
    LET DropPrefixes == { <<"tele", "rtl_433">>, <<"tele">>, <<"tasmota", "discovery">> }
    IN { << >> } \cup
       { <<ps>> : ps \in { x \in SUBSET DropPrefixes : Cardinality(x) <= MaxPrefixes } }

\* msgs: None, or a list of messages (an empty one included).
FilterMessageLists ==
    LET FilterTopics ==
            { <<"tele", "rtl_433", "LWT">>, <<"tele", "tasmota_X", "LWT">>,
              <<"tasmota", "discovery", "AABBCC", "config">> }
    IN { << >> } \cup
       { <<l>> : l \in UNION { [1..n -> { [topic |-> t, value |-> Raw("Online")] :
                                           t \in FilterTopics }] : n \in 0..MaxBatch } }

ApplyTopicFilterInit ==
    /\ call_args \in [drop_filter : DropFilters, msgs : FilterMessageLists]
    /\ call_result = << >>
    /\ IdleForCall

ApplyTopicFilter ==
    /\ call_result = << >>
    /\ call_result' = <<apply_topic_filter(call_args.drop_filter, call_args.msgs)>>
    /\ UNCHANGED <<call_args, idle_in_call>>

ApplyTopicFilterSpec == ApplyTopicFilterInit /\ [][ApplyTopicFilter]_vars

\* C12: for any configured set of drop-prefixes and any message list, the
\* result of apply_topic_filter holds no message whose topic starts with one
\* of the configured prefixes.
C12_NoDroppedTopicLeft ==
    (call_result # << >> /\ call_args.drop_filter # << >> /\ call_result[1] # << >>) =>
        \A k \in 1..Len(call_result[1][1]) :
            \A sw \in call_args.drop_filter[1] :
                ~StartsWith(call_result[1][1][k].topic, sw)

\* ------------------------------------- models.py: TasmotaTimeZoneDSTSTD
\* A Python str is a string; its characters are read with SubSeq.
Char(s, i) == SubSeq(s, i, i)

DigitChars == "0123456789"

\* str.split(sep) for a one-character separator: the pieces between the
\* separators, empty pieces included.
Split(s, sep) ==
    LET RECURSIVE SplitFrom(_, _)
        SplitFrom(i, piece) ==
            IF i > Len(s) THEN <<piece>>
            ELSE IF Char(s, i) = sep THEN <<piece>> \o SplitFrom(i + 1, "")
            ELSE SplitFrom(i + 1, piece \o Char(s, i))
    IN SplitFrom(1, "")

\* int(s): blanks around the literal are stripped, then an optional sign and
\* at least one digit are read; anything else raises ValueError (ok = FALSE).
ParseInt(s) ==
    LET RECURSIVE Strip(_)
        Strip(t) ==
            IF Len(t) > 0 /\ Char(t, 1) = " " THEN Strip(SubSeq(t, 2, Len(t)))
            ELSE IF Len(t) > 0 /\ Char(t, Len(t)) = " "
                 THEN Strip(SubSeq(t, 1, Len(t) - 1))
            ELSE t
        signed == Len(Strip(s)) > 0 /\ Char(Strip(s), 1) \in {"+", "-"}
        digits == IF signed THEN SubSeq(Strip(s), 2, Len(Strip(s))) ELSE Strip(s)
        DigitValue(c) == (CHOOSE i \in 1..10 : Char(DigitChars, i) = c) - 1
        RECURSIVE DigitsValue(_)
        DigitsValue(t) ==
            IF Len(t) = 0 THEN 0
            ELSE 10 * DigitsValue(SubSeq(t, 1, Len(t) - 1)) + DigitValue(Char(t, Len(t)))
    IN IF Len(digits) = 0
          \/ \E i \in 1..Len(digits) : \A j \in 1..10 : Char(DigitChars, j) # Char(digits, i)
       THEN [ok |-> FALSE, value |-> 0]
       ELSE [ok |-> TRUE,
             value |-> IF signed /\ Char(Strip(s), 1) = "-"
                       THEN 0 - DigitsValue(digits) ELSE DigitsValue(digits)]

\* str(n) for an int
IntToStr(n) ==
    LET RECURSIVE NatToStr(_)
        NatToStr(m) ==
            IF m < 10 THEN Char(DigitChars, m + 1)
            ELSE NatToStr(m \div 10) \o Char(DigitChars, (m % 10) + 1)
    IN IF n < 0 THEN "-" \o NatToStr(0 - n) ELSE NatToStr(n)

\* TasmotaTimeZoneDSTSTD.from_tasmota_command_string: ok is FALSE when the
\* assertion on the number of pieces fails or int() raises.  The rule is the
\* list hemisphere, week, month, day, hour, offset.
from_tasmota_command_string(values_comma_separated) ==
    LET data == Split(values_comma_separated, ",")
    IN IF Len(data) # 6 \/ \E i \in 1..6 : ~ParseInt(data[i]).ok
       THEN [ok |-> FALSE, rule |-> << >>]
       ELSE [ok |-> TRUE, rule |-> [i \in 1..6 |-> ParseInt(data[i]).value]]

\* TasmotaTimeZoneDSTSTD.to_tasmota_command_string:
\* str([h, w, m, d, h, o]).replace(" ", "")
to_tasmota_command_string(rule) ==
    LET RECURSIVE JoinInts(_)
        JoinInts(l) ==
            IF Len(l) = 0 THEN ""
            ELSE IF Len(l) = 1 THEN IntToStr(l[1])
            ELSE IntToStr(l[1]) \o ", " \o JoinInts(Tail(l))
        RECURSIVE RemoveBlanks(_)
        RemoveBlanks(t) ==
            IF Len(t) = 0 THEN ""
            ELSE IF Char(t, 1) = " " THEN RemoveBlanks(SubSeq(t, 2, Len(t)))
            ELSE Char(t, 1) \o RemoveBlanks(SubSeq(t, 2, Len(t)))
    IN RemoveBlanks("[" \o JoinInts(rule) \o "]")

\* ---- ensure_correct_timezone_settings_for_tasmotas
\* TasmotaTimezoneConfig.as_tasmota_command_list; the latitude, the longitude
\* and the timezone are written as the text that is published for them.
as_tasmota_command_list(tz) ==
    <<tz.latitude, tz.longitude, to_tasmota_command_string(tz.timedst),
      to_tasmota_command_string(tz.timestd), tz.timezone>>

\* The configuration that is used when the caller passes none.
DefaultTimezoneConfig ==
    [latitude |-> "53.6437753",
     longitude |-> "9.8940783",
     timedst |-> from_tasmota_command_string("0,0,3,1,1,120").rule,
     timestd |-> from_tasmota_command_string("0,0,10,1,1,60").rule,
     timezone |-> "99"]

to_be_sent_commands == <<"Latitude", "Longitude", "TimeDST", "TimeSTD", "TimeZone">>

\* The online devices of a call have a timezone that is already 99, or not.
InitEnsureTimezone ==
    /\ LET TimezoneLists ==
               { <<"99">>, <<"+01:00">>, <<"+01:00", "99">>, <<"99", "+01:00">> }
           TimezoneDevice(i, timezone) ==
               LET new == InputDevice(i, OnlineByDefault)
               IN [new EXCEPT
                      !.tasmota_config =
                          <<[new.tasmota_config[1] EXCEPT
                                !.timezoneconfig =
                                    <<[StoredTz EXCEPT !.timezone = timezone]>>]>>]
       IN \E zones \in TimezoneLists :
             tasmotas = [i \in 1..Len(zones) |-> TimezoneDevice(i, zones[i])]
    /\ tasmotas_at_call = tasmotas
    /\ to_be_used_commands = << >>
    /\ values_to_send = << >>
    /\ pc = "ensure"
    /\ tasmota_online = << >>
    /\ values_to_send_online = << >>
    /\ num = 0
    /\ index = 0
    /\ tzconfig = EmptyDict
    /\ mq = "none"
    /\ callbacks = {}
    /\ resp_data = EmptyDict
    /\ notified = FALSE
    /\ inflight = {}
    /\ published = << >>
    /\ outstanding = {}
    /\ applied = {}
    /\ attempted = {}
    /\ responses = 0
    /\ failures = 0
    /\ skipped = {}

\* The devices the loop appends a value list for.
TimezoneIsOff(tdo) ==
    /\ is_online(tdo, "Online")
    /\ tdo.tasmota_config[1].timezoneconfig[1].timezone # "99"

\* The loop over online_tasmotas builds one value list for every device whose
\* timezone is off; the call then goes on into send_cmds_to_online_tasmotas
\* with the whole device list and these value lists.
EnsureCorrectTimezoneSettings ==
    /\ pc = "ensure"
    /\ IF \A i \in 1..Len(tasmotas) :
             /\ tasmotas[i].tasmota_config # << >>
             /\ tasmotas[i].tasmota_config[1].timezoneconfig # << >>
       THEN /\ to_be_used_commands' = to_be_sent_commands
            /\ values_to_send' =
                  [k \in 1..Len(SelectSeq(tasmotas, TimezoneIsOff)) |->
                      as_tasmota_command_list(DefaultTimezoneConfig)]
            /\ pc' = "start"
       ELSE /\ pc' = "assertion_failed"
            /\ UNCHANGED <<to_be_used_commands, values_to_send>>
    /\ UNCHANGED <<tasmotas, tasmotas_at_call, num, index, tzconfig,
                   online_vars, mq_vars, history_vars>>

EnsureTimezoneInit == InitEnsureTimezone /\ NoDiscovery /\ NoIsOnline /\ NoCall

EnsureTimezoneNext ==
    \/ EnsureCorrectTimezoneSettings /\ UNCHANGED idle_in_dispatch
    \/ Next

EnsureTimezoneSpec == EnsureTimezoneInit /\ [][EnsureTimezoneNext]_vars

TimezoneOffAtCall(i) == TimezoneIsOff(tasmotas_at_call[i])

\* C13: the timezone correction never ends in a failed precondition, a
\* publish that carries a value goes to a device whose timezone was not 99 at
\* call time and carries the target value of its command, and when the call
\* has returned every such device has been sent each of the five target
\* values, but for the publishes that failed.
C13_TimezoneCorrection ==
    /\ pc # "assertion_failed"
    /\ \A k \in 1..Len(published) :
          published[k].value # None =>
              /\ TimezoneOffAtCall(tasmota_online[published[k].num])
              /\ published[k].value =
                    as_tasmota_command_list(DefaultTimezoneConfig)[published[k].index]
    /\ pc = "done" =>
          \A i \in 1..Len(tasmotas_at_call), c \in 1..Len(to_be_sent_commands) :
              TimezoneOffAtCall(i) =>
                  \/ \E k \in 1..Len(published) :
                        /\ tasmota_online[published[k].num] = i
                        /\ published[k].index = c
                        /\ published[k].value # None
                  \/ \E s \in skipped :
                        /\ tasmota_online[s.unit.num] = i
                        /\ s.unit.index = c
                        /\ s.mode = "publish"

\* ---- the round trip of a DST/STD rule through its command string
\* Six integers as str() writes them, joined by commas.
CommandStrings ==
    LET IntegerTexts == {"0", "3", "120", "-1"}
    IN { p[1] \o "," \o p[2] \o "," \o p[3] \o "," \o p[4] \o "," \o p[5] \o "," \o p[6] :
           p \in [1..6 -> IntegerTexts] }

CommandStringInit ==
    /\ call_args \in CommandStrings
    /\ call_result = << >>
    /\ IdleForCall

\* TasmotaTimeZoneDSTSTD.from_tasmota_command_string(s).to_tasmota_command_string()
CommandStringRoundTrip ==
    /\ call_result = << >>
    /\ call_result' =
          <<LET parsed == from_tasmota_command_string(call_args)
            IN IF parsed.ok
               THEN [ok |-> TRUE, value |-> to_tasmota_command_string(parsed.rule)]
               ELSE [ok |-> FALSE, value |-> ""]>>
    /\ UNCHANGED <<call_args, idle_in_call>>

CommandStringSpec == CommandStringInit /\ [][CommandStringRoundTrip]_vars

\* C17: parsing a string of six comma-separated integers and writing the
\* parsed rule back as a command string gives exactly the string that was
\* parsed.
C17_CommandStringRoundTrip ==
    call_result # << >> =>
        /\ call_result[1].ok
        /\ call_result[1].value = call_args

\* ------------------------------------- tasmotacommander.py: snapshot files
\* A timer as TasmotaTimerConfig holds it, as model_dump writes it (a dict
\* keyed by the field names) and as a device reports it in a Timer<n>
\* response (a dict keyed by the wire names), armed with action 1 or 0.
TimerConfig == "TasmotaTimerConfig(enable=1, action=1)"
TimerConfigDump == "{enable: 1, action: 1}"
TimerPayloads == {"{Enable: 1, Action: 1}", "{Enable: 1, Action: 0}"}

\* TasmotaDevice.model_dump(mode="python", by_alias=False) as
\* get_pretty_dict_json_no_sort writes it: every field under its field name.
model_dump(tasmota) ==
    LET \* null for None, a dict for a model object, any other value as it is
        ToJson(v) ==
            CASE v = None -> "null"
              [] v = TimerConfig -> TimerConfigDump
              [] OTHER -> v
        DumpTz(tz) == [h \in DOMAIN tz |-> ToJson(tz[h])]
        DumpConfig(cfg) ==
            [g \in DOMAIN cfg |->
                IF g = "timezoneconfig"
                THEN IF cfg[g] = << >> THEN << >> ELSE <<DumpTz(cfg[g][1])>>
                ELSE ToJson(cfg[g])]
    IN [f \in DOMAIN tasmota |->
           IF f = "tasmota_config"
           THEN IF tasmota[f] = << >> THEN << >> ELSE <<DumpConfig(tasmota[f][1])>>
           ELSE ToJson(tasmota[f])]

\* TasmotaDevice(**td_dict): ok is FALSE when the validation raises, which it
\* does for an lwt_current_value outside the Literal and for a timer dict
\* that is no valid TasmotaTimerConfig (action has ge=1).
TasmotaDeviceFromJson(d) ==
    LET FromJson(v) == IF v = "null" THEN None ELSE v
        timers == {"timer1", "timer2", "timer3", "timer4"}
        ValidTimer(v) ==
            v \in {None, "null", TimerConfigDump, "{Enable: 1, Action: 1}"}
        Timer(v) == IF v \in {None, "null"} THEN None ELSE TimerConfig
        Tz(tz) == [h \in DOMAIN tz |-> FromJson(tz[h])]
        parsed == ParseDeviceConfig(d.tasmota_config[1])
        Config ==
            [g \in DOMAIN parsed |->
                IF g = "timezoneconfig"
                THEN IF parsed[g] = << >> THEN << >> ELSE <<Tz(parsed[g][1])>>
                ELSE IF g \in timers THEN Timer(parsed[g])
                ELSE FromJson(parsed[g])]
    IN [ok |-> /\ d.lwt_current_value \in {"null", "Online", "Offline"}
               /\ d.tasmota_config # << >> =>
                     \A g \in timers : ValidTimer(parsed[g]),
        td |-> [f \in DOMAIN d |->
                   IF f = "tasmota_config"
                   THEN IF d[f] = << >> THEN << >> ELSE <<Config>>
                   ELSE FromJson(d[f])]]

\* Path.glob("tasmota_devices_*json")
GlobMatches(name) ==
    /\ Len(name) >= 20
    /\ SubSeq(name, 1, 16) = "tasmota_devices_"
    /\ SubSeq(name, Len(name) - 3, Len(name)) = "json"

\* The JSON list that is written for a device list.
JsonList(devs) == [islist |-> TRUE, items |-> [i \in 1..Len(devs) |-> model_dump(devs[i])]]

\* write_tasmota_devices_file with fp = None: the file is named by the time
\* of the call and holds the JSON list of the dumped devices; a file of that
\* name is overwritten.
write_tasmota_devices_file(dir, devs, now) ==
    LET fp == "tasmota_devices_" \o IntToStr(now) \o ".json"
    IN [fp |-> fp,
        dir |-> { f \in dir : f.name # fp }
                \cup {[name |-> fp, mtime |-> now,
                       content |-> JsonList(devs)]}]

\* read_tasmotas_from_latest_file: the matching files are gone through from
\* the latest modification time to the earliest; the first one whose JSON is
\* a non-empty list is returned as devices.  ret is << >> for None.
read_tasmotas_from_latest_file(dir) ==
    LET RECURSIVE Loop(_)
        Loop(jsonfiles) ==
            IF jsonfiles = {} THEN [raised |-> FALSE, ret |-> << >>]
            ELSE LET f == CHOOSE g \in jsonfiles : \A h \in jsonfiles : h.mtime <= g.mtime
                     json_data == f.content
                 IN IF json_data.islist /\ json_data.items # << >>
                    THEN IF \A i \in 1..Len(json_data.items) :
                                TasmotaDeviceFromJson(json_data.items[i]).ok
                         THEN [raised |-> FALSE,
                               ret |-> <<[i \in 1..Len(json_data.items) |->
                                            TasmotaDeviceFromJson(json_data.items[i]).td]>>]
                         ELSE [raised |-> TRUE, ret |-> << >>]
                    ELSE Loop(jsonfiles \ {f})
    IN Loop({ f \in dir : GlobMatches(f.name) })

\* ---- writing and reading snapshot files
\* Device lists as they are written: none; a device as discovery leaves it;
\* a record with no field set; a device whose LWT value is its own online
\* message; devices whose timer was set by the dispatch from a Timer1
\* response; a device as a snapshot file gave it; two devices.
WrittenLists ==
    LET ConfiguredDevice(topic, lwt, timer1, teleperiod) ==
            [TasmotaDevice EXCEPT
                !.tasmota_config =
                    <<[TasmotaDeviceConfig EXCEPT !.topic = topic,
                                                  !.timer1 = timer1,
                                                  !.teleperiod = teleperiod,
                                                  !.timezoneconfig = <<StoredTz>>]>>,
                !.lwt_current_value = lwt]
    IN
    { << >>,
      <<SnapshotDevice("tasmota_X", None, "Online")>>,
      <<TasmotaDevice>>,
      <<SnapshotDevice("tasmota_X", "Connected", "Connected")>>,
      <<ConfiguredDevice("tasmota_X", "Online", "{Enable: 1, Action: 1}", "300")>>,
      <<ConfiguredDevice("tasmota_X", "Online", "{Enable: 1, Action: 0}", "300")>>,
      <<ConfiguredDevice("tasmota_X", "Offline", TimerConfig, None)>>,
      <<SnapshotDevice("tasmota_X", None, "Online"),
        SnapshotDevice("tasmota_Y", None, "Offline")>> }

\* Directories as earlier runs leave them: files of different modification
\* times, of matching and other names, that hold a list of devices, an empty
\* list or a JSON object.
Directories ==
    LET JsonDict == [islist |-> FALSE, items |-> << >>]
        OlderDevices == <<SnapshotDevice("tasmota_Z", None, "Offline")>>
    IN
    { {},
      { [name |-> "tasmota_devices_1.json", mtime |-> 1, content |-> JsonList(OlderDevices)] },
      { [name |-> "tasmota_devices_1.json", mtime |-> 1, content |-> JsonList(OlderDevices)],
        [name |-> "devices_2.json", mtime |-> 2, content |-> JsonList(<<TasmotaDevice>>)] },
      { [name |-> "tasmota_devices_1.json", mtime |-> 1, content |-> JsonList(OlderDevices)],
        [name |-> "tasmota_devices_2.json", mtime |-> 2, content |-> JsonList(<< >>)] },
      { [name |-> "tasmota_devices_1.json", mtime |-> 2, content |-> JsonList(OlderDevices)],
        [name |-> "tasmota_devices_2.json", mtime |-> 1, content |-> JsonList(<<TasmotaDevice>>)] },
      { [name |-> "tasmota_devices_1.json", mtime |-> 1, content |-> JsonDict] },
      { [name |-> "devices_1.json", mtime |-> 1, content |-> JsonList(OlderDevices)] },
      { [name |-> "tasmota_devices_2.json", mtime |-> 2, content |-> JsonList(<< >>)] } }

\* The clock is past the modification time of every file in the directory.
SnapshotFileInit ==
    /\ tasmota_json_dir \in Directories
    /\ \E devs \in WrittenLists :
          call_args = [tasmotas |-> devs,
                       now |-> IF tasmota_json_dir = {} THEN 1
                               ELSE 1 + (CHOOSE f \in tasmota_json_dir :
                                            \A g \in tasmota_json_dir :
                                                g.mtime <= f.mtime).mtime]
    /\ call_result = << >>
    /\ NoDispatch /\ NoDiscovery /\ NoIsOnline

WriteTasmotaDevicesFile ==
    /\ call_result = << >>
    /\ LET written == write_tasmota_devices_file(tasmota_json_dir, call_args.tasmotas,
                                                 call_args.now)
       IN /\ tasmota_json_dir' = written.dir
          /\ call_result' = <<[op |-> "write", fp |-> written.fp, raised |-> FALSE,
                               ret |-> << >>]>>
    /\ UNCHANGED <<call_args, dispatch_vars, discovery_vars, is_online_vars>>

ReadTasmotasFromLatestFile ==
    /\ \A k \in 1..Len(call_result) : call_result[k].op # "read"
    /\ LET read == read_tasmotas_from_latest_file(tasmota_json_dir)
       IN call_result' = Append(call_result,
                                [op |-> "read", fp |-> "", raised |-> read.raised,
                                 ret |-> read.ret])
    /\ UNCHANGED <<call_args, tasmota_json_dir, dispatch_vars, discovery_vars,
                   is_online_vars>>

SnapshotFileNext == WriteTasmotaDevicesFile \/ ReadTasmotasFromLatestFile

SnapshotFileSpec == SnapshotFileInit /\ [][SnapshotFileNext]_vars

\* C15: a read that follows a write in the same directory returns, without
\* raising, a list that is equal to the written one device by device and
\* field by field.
C15_WriteThenReadRoundTrip ==
    (Len(call_result) = 2 /\ call_result[1].op = "write") =>
        /\ ~call_result[2].raised
        /\ call_result[2].ret = <<call_args.tasmotas>>

MatchingFiles == { f \in tasmota_json_dir : GlobMatches(f.name) }

LatestMatchingFile ==
    CHOOSE f \in MatchingFiles : \A g \in MatchingFiles : g.mtime <= f.mtime

\* C16: a read returns the devices of the matching file with the latest
\* modification time, never those of an older file, and returns None exactly
\* when no file of the directory matches tasmota_devices_*json.
C16_ReadsLatestMatchingFile ==
    \A k \in 1..Len(call_result) :
        call_result[k].op = "read" =>
            /\ (~call_result[k].raised /\ call_result[k].ret = << >>) <=> MatchingFiles = {}
            /\ (MatchingFiles # {} /\ ~call_result[k].raised) =>
                  call_result[k].ret =
                      <<[i \in 1..Len(LatestMatchingFile.content.items) |->
                            TasmotaDeviceFromJson(LatestMatchingFile.content.items[i]).td]>>

\* ---- read_tasmotas_from_file_update_save_to_file
\* The latest snapshot of the directory: none, an empty one, devices of which
\* the broker reports one online (tasmota_X), and devices that the broker
\* reports offline or does not know.  The broker holds the configurations and
\* LWT values of tasmota_X (online) and tasmota_Y (offline), or nothing.
RefreshInit ==
    /\ LET File(t, devs) ==
               [name |-> "tasmota_devices_" \o IntToStr(t) \o ".json", mtime |-> t,
                content |-> JsonList(devs)]
       IN tasmota_json_dir \in
             { {},
               { File(1, << >>) },
               { File(1, <<SnapshotDevice("tasmota_Y", None, "Online"),
                           SnapshotDevice("tasmota_X", None, "Offline")>>) },
               { File(1, <<SnapshotDevice("tasmota_X", None, None)>>),
                 File(2, <<SnapshotDevice("tasmota_Y", None, "Online"),
                           SnapshotDevice("tasmota_Z", None, "Online")>>) } }
    /\ retained \in
          { << >>,
            <<[topic |-> <<"tasmota", "discovery", "AABBCC", "config">>,
               value |-> Dict(("t" :> "tasmota_X"))],
              [topic |-> <<"tasmota", "discovery", "DDEEFF", "config">>,
               value |-> Dict(("t" :> "tasmota_Y"))],
              [topic |-> <<"tele", "tasmota_X", "LWT">>, value |-> Raw("Online")],
              [topic |-> <<"tele", "tasmota_Y", "LWT">>, value |-> Raw("Offline")]>> }
    /\ msg_topicname_startwith_drop_filter = DefaultDropFilter
    /\ all_tasmotas = << >>
    /\ all_tasmotas_at_call = << >>
    /\ update_lwt_current_value = FALSE
    /\ discovery = "start"
    /\ devices = << >>
    /\ online_tasmotas = << >>
    /\ call_args = [now |-> 3]
    /\ call_result = << >>
    /\ NoDispatch
    /\ NoIsOnline

\* The positions in tds of the devices update_online_tasmotas hands on.
RECURSIVE UpdateOnline(_, _)
UpdateOnline(tds, ret) ==
    IF ret = << >> THEN << >>
    ELSE IF is_online(tds[Head(ret)], "Online")
         THEN <<Head(ret)>> \o UpdateOnline(tds, Tail(ret))
         ELSE UpdateOnline(tds, Tail(ret))

\* A mutant of tds_dumps: the dumps are taken when the filter has run.
tds_dumps_after_filter(loaded, filtered) ==
    [i \in 1..Len(filtered) |-> model_dump(filtered[i])]

\* tds_dumps: the dump of every device of the list as it was loaded; the
\* list as the online filter leaves it is not looked at.
tds_dumps(loaded, filtered) ==
    [i \in 1..Len(loaded) |-> model_dump(loaded[i])]

\* From the start of the call up to the call of send_cmds_to_online_tasmotas:
\* the latest snapshot is read, every device is dumped, the online filter
\* overwrites the LWT values, and the status refresh starts a dispatch with
\* the default commands and no values for the devices that are online.
LoadDumpFilter ==
    /\ discovery = "start"
    /\ pc = "idle"
    /\ LET read == read_tasmotas_from_latest_file(tasmota_json_dir)
           tds == read.ret[1]
           st == filter_online_tasmotas_from_retained(
                     msg_topicname_startwith_drop_filter, retained, tds, TRUE)
           online_at == UpdateOnline(st.all, st.ret)
       IN IF read.raised
          THEN /\ discovery' = "raised"
               /\ UNCHANGED <<call_result, all_tasmotas, all_tasmotas_at_call,
                              update_lwt_current_value, online_tasmotas, retained,
                              msg_topicname_startwith_drop_filter, devices,
                              tasmotas, tasmotas_at_call, pc>>
          ELSE IF read.ret = << >> \/ tds = << >>
          THEN /\ discovery' = "returned"
               /\ UNCHANGED <<call_result, all_tasmotas, all_tasmotas_at_call,
                              update_lwt_current_value, online_tasmotas, retained,
                              msg_topicname_startwith_drop_filter, devices,
                              tasmotas, tasmotas_at_call, pc>>
          ELSE /\ call_result' =
                     <<[tds_dumps |-> tds_dumps(tds, st.all),
                        online_at |-> online_at, fp |-> ""]>>
               /\ FilterOnlineTasmotasFromRetained(tds, TRUE)
               /\ IF st.raised
                  THEN UNCHANGED <<tasmotas, tasmotas_at_call, pc>>
                  ELSE /\ tasmotas' = [k \in 1..Len(online_at) |-> st.all[online_at[k]]]
                       /\ tasmotas_at_call' = tasmotas'
                       /\ pc' = "start"
    /\ UNCHANGED <<to_be_used_commands, values_to_send, num, index, tzconfig,
                   online_vars, mq_vars, history_vars, call_args, tasmota_json_dir,
                   is_online_vars>>

\* tds as the loaded list is when the dispatch has returned: the devices that
\* were handed to it are the objects of the list.
tds_updated ==
    [i \in 1..Len(all_tasmotas) |->
        IF \E k \in 1..Len(call_result[1].online_at) : call_result[1].online_at[k] = i
        THEN tasmotas[CHOOSE k \in 1..Len(call_result[1].online_at) :
                          call_result[1].online_at[k] = i]
        ELSE all_tasmotas[i]]

\* After the dispatch has returned: the diffs are logged and the whole list
\* is written to a new snapshot file.
SaveToFile ==
    /\ pc = "done"
    /\ call_result # << >>
    /\ call_result[1].fp = ""
    /\ LET written == write_tasmota_devices_file(tasmota_json_dir, tds_updated,
                                                 call_args.now)
       IN /\ tasmota_json_dir' = written.dir
          /\ call_result' = <<[call_result[1] EXCEPT !.fp = written.fp]>>
    /\ UNCHANGED <<call_args, dispatch_vars, discovery_vars, is_online_vars>>

\* The refresh sends the fifteen default commands; the dispatch is followed
\* with a device that answers at most one of them.
RefreshNext ==
    \/ LoadDumpFilter
    \/ SaveToFile
    \/ Next /\ (responses = 0 \/ responses' = responses)

RefreshSpec == RefreshInit /\ [][RefreshNext]_vars

WrittenFile == CHOOSE f \in tasmota_json_dir : f.name = call_result[1].fp

\* C14: the pre-update dump of every device shows it as it was loaded, before
\* the online filter overwrote any LWT value; the snapshot that the refresh
\* writes is a new, latest file that holds every loaded device once and in
\* the loaded order, the devices that the online filter did not return as
\* they were loaded, and the others with the updates that were made in place.
C14_RefreshWritesWholeList ==
    call_result # << >> =>
        /\ Len(call_result[1].tds_dumps) = Len(all_tasmotas_at_call)
        /\ \A i \in 1..Len(all_tasmotas_at_call) :
              call_result[1].tds_dumps[i] = model_dump(all_tasmotas_at_call[i])
        /\ call_result[1].fp # "" =>
              /\ \A f \in tasmota_json_dir \ {WrittenFile} : f.mtime < WrittenFile.mtime
              /\ WrittenFile.content.islist
              /\ Len(WrittenFile.content.items) = Len(all_tasmotas_at_call)
              /\ \A i \in 1..Len(all_tasmotas_at_call) :
                    /\ WrittenFile.content.items[i].tasmota_config[1].topic =
                          all_tasmotas_at_call[i].tasmota_config[1].topic
                    /\ (\A k \in 1..Len(online_tasmotas) : online_tasmotas[k] # i) =>
                          WrittenFile.content.items[i] = call_result[1].tds_dumps[i]
                    /\ WrittenFile.content.items[i] = model_dump(tds_updated[i])

\* A snapshot has been written in which a device that is not online is as it
\* was loaded, and an online device has the LWT value of the broker and a
\* setting that a response brought.
C14_Witness ==
    /\ call_result # << >>
    /\ call_result[1].fp # ""
    /\ \E i, j \in 1..Len(all_tasmotas_at_call) :
          /\ \A k \in 1..Len(online_tasmotas) : online_tasmotas[k] # j
          /\ \E k \in 1..Len(online_tasmotas) : online_tasmotas[k] = i
          /\ all_tasmotas_at_call[i].lwt_current_value = "Offline"
          /\ WrittenFile.content.items[i].lwt_current_value = "Online"
          /\ WrittenFile.content.items[i].tasmota_config[1].teleperiod = "current"

\* ------------------------------------------------ Helper.py: update_deep
\* A JSON value: kind is "null", "scalar" (its number is n), "list" (its
\* entries are items) or "dict" (the value of keys[i] is items[i]).
Json(kind, n, keys, items) == [kind |-> kind, n |-> n, keys |-> keys, items |-> items]

MaxBase == 3              \* entries of a base list
MaxUpdate == 2            \* entries of an update list

\* A mutant of Resize: the list is padded but never shortened.
PadOnly(base, len) ==
    [i \in 1..(IF Len(base) > len THEN Len(base) ELSE len) |->
        IF i <= Len(base) THEN base[i] ELSE Json("null", 0, << >>, << >>)]

\* The two while loops: None is appended until the list is as long as the
\* update, and entries are popped until it is no longer.
Resize(base, len) ==
    [i \in 1..len |-> IF i <= Len(base) THEN base[i] ELSE Json("null", 0, << >>, << >>)]

RECURSIVE update_deep(_, _)
update_deep(base, u) ==
    LET IsContainer(v) == v.kind \in {"dict", "list"}
        RECURSIVE DictLoop(_, _)
        \* for k, v in u.items(), from position j on
        DictLoop(b, j) ==
            IF j > Len(u.keys) THEN b
            ELSE LET k == u.keys[j]
                     v == u.items[j]
                     has == \E p \in 1..Len(b.keys) : b.keys[p] = k
                     at == CHOOSE p \in 1..Len(b.keys) : b.keys[p] = k
                     new == IF IsContainer(v)
                            THEN update_deep(IF has THEN b.items[at]
                                             ELSE Json("dict", 0, << >>, << >>), v)
                            ELSE v
                 IN DictLoop(IF has THEN [b EXCEPT !.items[at] = new]
                             ELSE [b EXCEPT !.keys = Append(@, k),
                                            !.items = Append(@, new)],
                             j + 1)
        resized == Resize(IF base.kind = "list" THEN base.items ELSE << >>, Len(u.items))
    IN CASE u.kind = "dict" ->
              DictLoop(IF base.kind = "dict" THEN base ELSE Json("dict", 0, << >>, << >>), 1)
         [] u.kind = "list" ->
              Json("list", 0, << >>,
                   [i \in 1..Len(resized) |->
                       \* for i, v in enumerate(u): the other entries stay
                       IF i > Len(u.items) THEN resized[i]
                       ELSE LET v == u.items[i]
                            IN IF IsContainer(v)
                               THEN update_deep(IF resized[i].kind # "null" THEN resized[i]
                                                ELSE Json(v.kind, 0, << >>, << >>), v)
                               ELSE v])
         [] OTHER -> base

\* base and u are lists of numbers, None, lists and dicts.
UpdateDeepInit ==
    /\ LET Number(n) == Json("scalar", n, << >>, << >>)
           Null == Json("null", 0, << >>, << >>)
           List(items) == Json("list", 0, << >>, items)
           Object(keys, items) == Json("dict", 0, keys, items)
           BaseEntries ==
               { Number(1), Null, List(<<Number(2), Number(3)>>),
                 Object(<<"a", "b">>, <<Number(1), List(<<Number(2)>>)>>) }
           UpdateEntries ==
               { Number(9), Null, List(<<Number(8)>>), List(<< >>),
                 Object(<<"b", "c">>, <<List(<<Number(7), Number(6)>>), Number(5)>>) }
       IN call_args \in
             [base : { List(l) : l \in UNION { [1..n -> BaseEntries] : n \in 0..MaxBase } },
              u : { List(l) : l \in UNION { [1..n -> UpdateEntries] : n \in 0..MaxUpdate } }]
    /\ call_result = << >>
    /\ IdleForCall

UpdateDeep ==
    /\ call_result = << >>
    /\ call_result' = <<update_deep(call_args.base, call_args.u)>>
    /\ UNCHANGED <<call_args, idle_in_call>>

UpdateDeepSpec == UpdateDeepInit /\ [][UpdateDeep]_vars

\* C18: the merge of an update list into a base list is a list as long as the
\* update; entry i is update[i] when that is no container, else the merge of
\* update[i] into base[i] (into nothing when the base has no entry i).  A
\* dict merged into a dict keeps the keys of the base, takes every key of the
\* update, and a number of the update replaces what the base had.
C18_ListMerge ==
    call_result # << >> =>
        LET base == call_args.base.items
            u == call_args.u.items
            r == call_result[1]
        IN /\ r.kind = "list"
           /\ Len(r.items) = Len(u)
           /\ \A i \in 1..Len(u) :
                 /\ u[i].kind \notin {"dict", "list"} => r.items[i] = u[i]
                 /\ u[i].kind \in {"dict", "list"} =>
                       r.items[i] =
                           update_deep(IF i <= Len(base) THEN base[i]
                                       ELSE Json("null", 0, << >>, << >>), u[i])
                 /\ u[i].kind = "list" =>
                       r.items[i].kind = "list" /\ Len(r.items[i].items) = Len(u[i].items)
                 /\ (u[i].kind = "dict" /\ i <= Len(base) /\ base[i].kind = "dict") =>
                       /\ \A p \in 1..Len(base[i].keys) :
                             \E q \in 1..Len(r.items[i].keys) :
                                 r.items[i].keys[q] = base[i].keys[p]
                       /\ \A p \in 1..Len(u[i].keys) :
                             \E q \in 1..Len(r.items[i].keys) :
                                 /\ r.items[i].keys[q] = u[i].keys[p]
                                 /\ u[i].items[p].kind = "scalar" =>
                                       r.items[i].items[q] = u[i].items[p]

\* base = [1, [2, 3], {...}] and update = [9] have been merged to [9].
C18_Witness ==
    /\ call_result # << >>
    /\ Len(call_args.base.items) = 3
    /\ call_args.base.items[1] = Json("scalar", 1, << >>, << >>)
    /\ call_args.u.items = <<Json("scalar", 9, << >>, << >>)>>
    /\ call_result[1] = Json("list", 0, << >>, <<Json("scalar", 9, << >>, << >>)>>)

\* ---- TasmotaDeviceConfig(**payload)
\* Payloads with one or two keys, each the compact wire key or the field
\* name of an aliased field.
ParseConfigInit ==
    /\ LET Keys == { "t", "topic", "onln", "online_msg", "TelePeriod", "teleperiod",
                     "PowerDelta1", "powerdelta1", "SetOption4", "setoption4",
                     "Timer1", "timer1", "Timer2", "timer2", "Timer3", "timer3",
                     "Timer4", "timer4" }
       IN call_args \in
             { (k :> v) : k \in Keys, v \in {"v1", "v2"} }
             \cup { (k1 :> "v1") @@ (k2 :> "v2") : k1 \in Keys, k2 \in Keys }
    /\ call_result = << >>
    /\ IdleForCall

ParseConfig ==
    /\ call_result = << >>
    /\ call_result' = <<ParseDeviceConfig(call_args)>>
    /\ UNCHANGED <<call_args, idle_in_call>>

ParseConfigSpec == ParseConfigInit /\ [][ParseConfig]_vars

\* C19: every aliased field of the parsed configuration holds the value of
\* its compact wire key, else the value of its field name, else nothing: a
\* key populates its own field and no other (Timer3 populates timer3, Timer2
\* populates timer2 only).
C19_WireKeysPopulateOwnField ==
    call_result # << >> =>
        LET Wire == [topic |-> "t", online_msg |-> "onln", teleperiod |-> "TelePeriod",
                     powerdelta1 |-> "PowerDelta1", setoption4 |-> "SetOption4",
                     timer1 |-> "Timer1", timer2 |-> "Timer2", timer3 |-> "Timer3",
                     timer4 |-> "Timer4"]
        IN \A f \in DOMAIN Wire :
              call_result[1][f] =
                  IF Wire[f] \in DOMAIN call_args THEN call_args[Wire[f]]
                  ELSE IF f \in DOMAIN call_args THEN call_args[f]
                  ELSE None

\* ------------------------------------------------------ cli.py: send-cmd
SendCmdInit ==
    /\ call_args \in [command : {None, "", "Power"}, value : {None, "1", "ON", "TOGGLE"}]
    /\ call_result = << >>
    /\ tasmota_json_dir = {}
    /\ retained \in { b \in RetainedBatches : Len(b) <= 2 }
    /\ msg_topicname_startwith_drop_filter = DefaultDropFilter
    /\ all_tasmotas = << >>
    /\ all_tasmotas_at_call = << >>
    /\ update_lwt_current_value = FALSE
    /\ discovery = "start"
    /\ devices = << >>
    /\ online_tasmotas = << >>
    /\ NoDispatch
    /\ NoIsOnline

\* The send-cmd case of _run.  A missing command ends the process.  The call
\* of get_all_tasmota_devices_from_retained raises TypeError when it is given
\* a keyword that is none of the method's parameters.  Past it, the online
\* filter runs and send_cmds_to_online_tasmotas is called with the one
\* command and, for every online device, the value as it is: a str, of which
\* the dispatch takes the length and the characters.
SendCmd ==
    /\ call_result = << >>
    /\ discovery = "start"
    /\ pc = "idle"
    /\ LET parameters == {"topics", "noisy", "noisy_lowerlevel"}
           keywords == {"noisy", "noisy_lowerlevel", "retained_msgs_receive_grace_ms"}
           all_devs == get_all_tasmota_devices_from_retained(
                           msg_topicname_startwith_drop_filter, retained)
           st == filter_online_tasmotas_from_retained(
                     msg_topicname_startwith_drop_filter, retained, all_devs.ret, TRUE)
           val_typed == IF call_args.value = None THEN << >>
                        ELSE [i \in 1..Len(call_args.value) |-> Char(call_args.value, i)]
       IN IF ~Truthy(call_args.command)
          THEN /\ call_result' = <<"SystemExit">>
               /\ UNCHANGED <<discovery_vars, tasmotas, tasmotas_at_call,
                              to_be_used_commands, values_to_send, pc>>
          ELSE IF ~(keywords \subseteq parameters)
          THEN /\ call_result' = <<"TypeError">>
               /\ UNCHANGED <<discovery_vars, tasmotas, tasmotas_at_call,
                              to_be_used_commands, values_to_send, pc>>
          ELSE IF all_devs.raised \/ st.raised
          THEN /\ call_result' = <<"raised">>
               /\ discovery' = "raised"
               /\ UNCHANGED <<retained, msg_topicname_startwith_drop_filter,
                              all_tasmotas, all_tasmotas_at_call,
                              update_lwt_current_value, devices, online_tasmotas,
                              tasmotas, tasmotas_at_call, to_be_used_commands,
                              values_to_send, pc>>
          ELSE /\ call_result' = <<"dispatch">>
               /\ devices' = all_devs.ret
               /\ FilterOnlineTasmotasFromRetained(all_devs.ret, TRUE)
               /\ tasmotas' = [k \in 1..Len(st.ret) |-> st.all[st.ret[k]]]
               /\ tasmotas_at_call' = tasmotas'
               /\ to_be_used_commands' = <<call_args.command>>
               /\ values_to_send' = [k \in 1..Len(st.ret) |-> val_typed]
               /\ pc' = "start"
    /\ UNCHANGED <<call_args, tasmota_json_dir, num, index, tzconfig, online_vars,
                   mq_vars, history_vars, is_online_vars>>

SendCmdSpec == SendCmdInit /\ [][SendCmd]_vars

\* C20: send-cmd without a command ends the process before any work; with a
\* command C and a value V it gets to dispatch the one command C, with the
\* value V, to every device that the online filter returns.
C20_SendCmdDispatches ==
    call_result # << >> =>
        IF ~Truthy(call_args.command)
        THEN call_result[1] = "SystemExit" /\ pc = "idle" /\ discovery = "start"
        ELSE call_result[1] \in {"dispatch", "raised"}
             /\ (call_result[1] = "dispatch" =>
                   /\ pc = "start"
                   /\ to_be_used_commands = <<call_args.command>>
                   /\ Len(tasmotas) = Len(online_tasmotas)
                   /\ \A k \in 1..Len(values_to_send) :
                         values_to_send[k] =
                             IF call_args.value = None THEN << >> ELSE <<call_args.value>>)

\* ---------------------------------------------------------------- C21
\* C21: when a command is about to be published, the only listeners that are
\* registered are the two of this command, and the response map holds nothing
\* of an earlier command: every path through the iteration before it has
\* deregistered its own two listeners and removed what it consumed.
C21_NoListenerLeft ==
    pc = "publish" =>
        /\ callbacks \subseteq {result_topic, cmd_res_topic}
        /\ \A k \in DOMAIN resp_data : resp_data[k].re = unit

\* ---------------------------------------------------------------- C22
\* The values of a sequence in the order of their first appearance.
FirstSeen(seq) ==
    LET RECURSIVE First(_)
        First(s) ==
            IF s = << >> THEN << >>
            ELSE LET before == First(SubSeq(s, 1, Len(s) - 1))
                     last == s[Len(s)]
                 IN IF \E i \in 1..Len(before) : before[i] = last THEN before
                    ELSE Append(before, last)
    IN First(seq)

\* The retained messages that reach the two passes.
PassMessages ==
    LET msgs == get_all_retained(msg_topicname_startwith_drop_filter, retained)
    IN IF msgs = << >> THEN << >> ELSE msgs[1]

\* The lookup keys of pass 1 in the order of their first sight.
DiscoveryKeysSeen ==
    LET discs == SelectSeq(PassMessages,
                     LAMBDA m : StartsWith(m.topic, TASMOTA_DISCOVERY_TOPIC_BEGIN))
    IN FirstSeen([i \in 1..Len(discs) |-> discs[i].topic[Len(discs[i].topic) - 1]])

\* The topics that the config messages of the batch declare.
DeclaredTopics ==
    { PassMessages[i].value.d["t"] :
        i \in { j \in 1..Len(PassMessages) : IsConfigMessage(PassMessages[j]) } }

\* The lookup keys of pass 2 that no pass-1 record is indexed under, in the
\* order of their first sight.
LwtKeysSeen ==
    LET lwts == SelectSeq(PassMessages,
                    LAMBDA m : /\ Len(m.topic) = 3
                               /\ m.topic[1] = "tele"
                               /\ m.topic[3] = "LWT"
                               /\ m.topic[2] \notin DeclaredTopics)
    IN FirstSeen([i \in 1..Len(lwts) |-> lwts[i].topic[2]])

\* C22: the returned list holds one record per lookup key of pass 1, in the
\* order of the keys' first sight, followed by one record per LWT topic that
\* resolves to no pass-1 record, in the order of the topics' first sight.
C22_CreatedOnceInOrder ==
    discovery = "devices" =>
        /\ Len(devices) = Len(DiscoveryKeysSeen) + Len(LwtKeysSeen)
        /\ \A i \in 1..Len(DiscoveryKeysSeen) :
              \A j \in 1..Len(PassMessages) :
                 (/\ IsConfigMessage(PassMessages[j])
                  /\ PassMessages[j].topic[3] = DiscoveryKeysSeen[i])
                 => /\ i <= Len(devices)
                    /\ devices[i].tasmota_config # << >>
                    /\ devices[i].tasmota_config[1].topic = PassMessages[j].value.d["t"]
        /\ \A i \in 1..Len(LwtKeysSeen) :
              LET at == Len(DiscoveryKeysSeen) + i
              IN /\ at <= Len(devices)
                 /\ devices[at].tasmota_config # << >>
                 /\ devices[at].tasmota_config[1].topic = LwtKeysSeen[i]
                 /\ devices[at].tasmota_sensors = TasmotaDevice.tasmota_sensors

\* A discovery returned two pass-1 records and then an LWT-only record, from
\* a batch whose first message is the LWT message.
C22_Witness ==
    /\ discovery = "devices"
    /\ Len(DiscoveryKeysSeen) = 2
    /\ Len(LwtKeysSeen) = 1
    /\ Len(retained) >= 1
    /\ retained[1].topic[1] = "tele"

\* ---------------------------------------------------------------- C23
\* The aggregation table after the discovery pass.
TableAfterDiscoveryPass ==
    DiscoveryLoop([ret |-> << >>, tdlookup |-> EmptyDict, raised |-> FALSE],
                  PassMessages).tdlookup

\* C23: after the discovery pass, for every config message under a discovery
\* key K that declares a topic T, K and T resolve to the same record, and
\* that record has the value of the LWT message for T when the batch has one.
C23_KeyAndTopicSameRecord ==
    discovery = "devices" =>
        \A j \in 1..Len(PassMessages) :
           IsConfigMessage(PassMessages[j]) =>
              LET K == PassMessages[j].topic[3]
                  T == PassMessages[j].value.d["t"]
              IN /\ K \in DOMAIN TableAfterDiscoveryPass
                 /\ T \in DOMAIN TableAfterDiscoveryPass
                 /\ TableAfterDiscoveryPass[K] = TableAfterDiscoveryPass[T]
                 /\ \A l \in 1..Len(PassMessages) :
                       IsLwtMessageFor(PassMessages[l], T) =>
                          devices[TableAfterDiscoveryPass[K]].lwt_current_value
                              = PayloadValue(PassMessages[l].value)

\* ---------------------------------------------------------------- C24
\* How many of the configured prefixes the topic of the i-th input message
\* does not start with.
NotMatched(i) ==
    Cardinality({ sw \in call_args.drop_filter[1] :
                    ~StartsWith(call_args.msgs[1][i].topic, sw) })

\* The length of the result up to and including the copies of message i.
CopiesUpTo(i) ==
    LET RECURSIVE Sum(_)
        Sum(k) == IF k = 0 THEN 0 ELSE Sum(k - 1) + NotMatched(k)
    IN Sum(i)

\* C24: with a drop-prefix set that is not empty, the result holds every
\* input message once per prefix its topic does not start with, in input
\* order; with one prefix it is the input without the matching messages; it
\* is None when nothing remains.
C24_OncePerUnmatchedPrefix ==
    (/\ call_result # << >>
     /\ call_args.drop_filter # << >>
     /\ call_args.drop_filter[1] # {}
     /\ call_args.msgs # << >>) =>
        LET msgs == call_args.msgs[1]
            total == CopiesUpTo(Len(msgs))
        IN IF total = 0 THEN call_result[1] = << >>
           ELSE /\ call_result[1] # << >>
                /\ Len(call_result[1][1]) = total
                /\ \A i \in 1..Len(msgs) :
                      \A k \in (CopiesUpTo(i - 1) + 1)..CopiesUpTo(i) :
                          call_result[1][1][k] = msgs[i]
                /\ Cardinality(call_args.drop_filter[1]) = 1 =>
                      call_result[1][1] =
                          SelectSeq(msgs, LAMBDA m :
                              \A sw \in call_args.drop_filter[1] :
                                  ~StartsWith(m.topic, sw))

\* A call with two prefixes returned more messages than it was given.
C24_Witness ==
    /\ call_result # << >>
    /\ call_args.drop_filter # << >>
    /\ Cardinality(call_args.drop_filter[1]) = 2
    /\ call_args.msgs # << >>
    /\ call_result[1] # << >>
    /\ Len(call_result[1][1]) > Len(call_args.msgs[1])
    /\ \E i \in 1..Len(call_args.msgs[1]) : NotMatched(i) = 1

\* ---------------------------------------------------------------- C26
\* C26: for any drop-prefix configuration (None, the empty set, or a set of
\* prefixes), every input message whose topic starts with none of the
\* configured prefixes is in the result.
C26_UnmatchedMessageKept ==
    (call_result # << >> /\ call_args.msgs # << >>) =>
        \A i \in 1..Len(call_args.msgs[1]) :
            (\/ call_args.drop_filter = << >>
             \/ \A sw \in call_args.drop_filter[1] :
                   ~StartsWith(call_args.msgs[1][i].topic, sw))
            => /\ call_result[1] # << >>
               /\ \E k \in 1..Len(call_result[1][1]) :
                     call_result[1][1][k] = call_args.msgs[1][i]

\* ---------------------------------------------------------------- C25
\* C25: a command whose response the callback thread has delivered before
\* the first wait expires is not skipped by a wait timeout, whichever way the
\* callback thread and the dispatching thread interleave.
C25_DeliveredResponseNotSkipped ==
    \A s \in skipped : s.mode \in {"wait1", "wait2"} => ~s.arrived

\* ---------------------------------------------------------------- C27
\* C27: every record that a discovery returns has a configuration with a
\* topic, and the online filter that is then run on the returned list does
\* not fail an assertion.
C27_DiscoveredHaveConfig ==
    /\ discovery \in {"devices", "filtered", "raised"} =>
          \A i \in 1..Len(devices) :
              /\ devices[i].tasmota_config # << >>
              /\ Truthy(devices[i].tasmota_config[1].topic)
    /\ devices # << >> => discovery # "raised"

\* ---------------------------------------------------------------- C28
\* C28: no two records of the list that a discovery returns have the same
\* topic.
C28_TopicIdentifiesRecord ==
    discovery = "devices" =>
        \A i, j \in 1..Len(devices) :
            (/\ devices[i].tasmota_config # << >>
             /\ devices[j].tasmota_config # << >>
             /\ devices[i].tasmota_config[1].topic = devices[j].tasmota_config[1].topic)
            => i = j

\* ---------------------------------------------------------------- C29
\* C29: after a call of the online filter with update_lwt_current_value set,
\* every device of the returned list is online by its own is_online.
C29_ReturnedAreOnline ==
    (discovery = "filtered" /\ update_lwt_current_value) =>
        \A k \in 1..Len(online_tasmotas) :
            is_online(all_tasmotas[online_tasmotas[k]], "Online")

\* ------------------------------- the timezone correction, every command answered
\* mq.publish_one returned True and the device answers the command with the
\* report of the setting.
PublishOkAnswered ==
    /\ pc = "publish"
    /\ responses' = responses + 1
    /\ \E t \in {result_topic, cmd_res_topic} :
          inflight' = inflight \cup
              { [topic |-> t,
                 value |-> ResponsePayload("ok", cmd, to_send_value),
                 re |-> unit] }
    /\ published' = Append(published,
                           [num |-> num, index |-> index,
                            topic |-> <<"cmnd", td.tasmota_config[1].topic, cmd>>,
                            value |-> to_send_value,
                            answered |-> TRUE])
    /\ outstanding' = outstanding \cup {unit}
    /\ AfterPublish
    /\ UNCHANGED <<tasmotas, num, tzconfig, mq, callbacks, resp_data,
                   notified, applied, attempted, failures, skipped, call_vars,
                   online_vars>>

\* The timezone correction on devices that answer every command they are
\* sent: no publish fails and no command goes unanswered.
EnsureAnsweredNext ==
    \/ EnsureCorrectTimezoneSettings /\ UNCHANGED idle_in_dispatch
    \/ PublishOkAnswered /\ UNCHANGED idle_in_dispatch
    \/ Next /\ ~(pc = "publish" /\ pc' # "publish")

EnsureAnsweredSpec == EnsureTimezoneInit /\ [][EnsureAnsweredNext]_vars

\* C30: when the timezone correction has returned, a device whose timezone
\* was not 99 at call time, which answered all five commands and none of
\* whose commands was skipped has the timezone 99 in its record, so the loop
\* of a second call appends no value list for it.
C30_SecondRunSchedulesNothing ==
    pc = "done" =>
        \A i \in 1..Len(tasmotas) :
            (/\ TimezoneOffAtCall(i)
             /\ \A c \in 1..Len(to_be_sent_commands) :
                   \E k \in 1..Len(published) :
                      /\ tasmota_online[published[k].num] = i
                      /\ published[k].index = c
                      /\ published[k].answered
             /\ \A s \in skipped : tasmota_online[s.unit.num] # i)
            => /\ tasmotas[i].tasmota_config[1].timezoneconfig # << >>
               /\ tasmotas[i].tasmota_config[1].timezoneconfig[1].timezone = "99"
               /\ ~TimezoneIsOff(tasmotas[i])

=============================================================================
